---- MODULE Spec2Model ----
(***************************************************************************)
(* State-machine model of the page-type classifier of dit                  *)
(* (classifier/pagetype.go) and of the public facade (package dit).        *)
(*                                                                         *)
(* Go slices are sequences; a Go index i is the TLA+ index i+1, and every  *)
(* integer the code stores (class indices, dimensions, columns) keeps its  *)
(* Go value.  A nil slice is the empty sequence.  float64 values that the  *)
(* code only divides or compares are exact rationals <<num, den>>.         *)
(***************************************************************************)
EXTENDS Integers, Sequences, FiniteSets, TLC

VARIABLES
    model,    \* the PageTypeModel the process holds (fields of the struct)
    clf,      \* the dit.Classifier: fc, fc.FormModel, fc.PageModel
    call,     \* the operation last called, with its arguments
    ret,      \* what that call returned (or that it panicked)
    locals    \* the local variables and steps of that call

vars == <<model, clf, call, ret, locals>>

----------------------------------------------------------------------------
(* Bounds of the model                                                     *)

\* Longest training corpus (docs) and longest labels slice.
MaxDocs == 2

\* Most forms in an HTML input of the facade.
MaxForms == 2

\* Depth of the deepest working directory; the filesystem root has depth 0.
MaxDepth == 3

----------------------------------------------------------------------------
(* Generic helpers                                                         *)

Range(s) == {s[i] : i \in DOMAIN s}

RECURSIVE SumSeq(_)
SumSeq(s) == IF s = <<>> THEN 0 ELSE Head(s) + SumSeq(Tail(s))

SeqsUpTo(S, n) == UNION {[1..k -> S] : k \in 0..n}

\* 1-based position of the first occurrence of x in s (0 when absent).
FirstPos(s, x) ==
    IF x \in Range(s)
    THEN CHOOSE i \in DOMAIN s : s[i] = x /\ \A k \in 1..(i - 1) : s[k] # x
    ELSE 0

RECURSIVE Gcd(_, _)
Gcd(a, b) == IF b = 0 THEN a ELSE Gcd(b, a % b)

\* The quotient a / b (b > 0) as a rational in lowest terms.
Rat(a, b) == LET g == Gcd(a, b) IN <<a \div g, b \div g>>

\* p > q on rationals with positive denominators.
RatGT(p, q) == p[1] * q[2] > q[1] * p[2]

RatLE(p, q) == ~RatGT(p, q)

\* All orders (permutations) in which the elements of S can be visited.
Orders(S) ==
    {o \in [1..Cardinality(S) -> S] : \A i, k \in DOMAIN o : i # k => o[i] # o[k]}

----------------------------------------------------------------------------
(* Documents and page feature pipelines                                    *)

\* What the page extractors read off a document: the tokens of its
\* structure mapping, of its title text, and of the URL it was fetched from.
DocLogin  == [name |-> "login",  structure |-> <<"has_form=true">>,
              title |-> <<"sign">>, url |-> <<"login">>]
DocSearch == [name |-> "search", structure |-> <<"has_form=true", "has_nav=true">>,
              title |-> <<"find">>, url |-> <<>>]
DocBlank  == [name |-> "blank",  structure |-> <<>>, title |-> <<>>, url |-> <<>>]

Docs == {DocLogin, DocSearch, DocBlank}

LabelSet == {"login", "search"}

\* DefaultPageFeaturePipelines(): an ordered, non-empty list binding an
\* extractor to a vectorizer kind.
DefaultPageFeaturePipelines ==
    << [Name |-> "structure", Extractor |-> "PageStructure", VecType |-> "dict"],
       [Name |-> "title",     Extractor |-> "PageTitle",     VecType |-> "tfidf"],
       [Name |-> "url",       Extractor |-> "PageURL",       VecType |-> "tfidf"] >>

\* extractor.ExtractDict(doc, formResults): the tokens key=value of the mapping.
ExtractDict(extractor, doc) ==
    IF extractor = "PageStructure" THEN doc.structure ELSE <<>>

\* extractor.ExtractString(doc, formResults): the tokens of the text.  The
\* PageURLExtractor reads its own URL field, given as url.
ExtractString(extractor, doc, url) ==
    CASE extractor = "PageTitle" -> doc.title
      [] extractor = "PageURL"   -> url
      [] OTHER                   -> <<>>

\* pageExtractorTypeName
pageExtractorTypeName(e) ==
    IF e \in {"PageStructure", "PageTitle", "PageMetaDescription", "PageHeadings",
              "PageH1", "PageCSS", "PageNavText", "FormTypeSummary",
              "PageBodyText", "PageURL"}
    THEN e ELSE "unknown"

----------------------------------------------------------------------------
(* Vectorizers and sparse vectors                                          *)

\* A vectorizer pointer: nil, or a fitted vectorizer holding its vocabulary
\* (token -> column, column k being position k+1 of vocab).
NilVec == [nil |-> TRUE, vocab |-> <<>>]
Vec(vocab) == [nil |-> FALSE, vocab |-> vocab]

RECURSIVE FitVocab(_, _)
\* Fit: every distinct token of the corpus gets the next column, first seen first.
FitVocab(tokens, vocab) ==
    IF tokens = <<>> THEN vocab
    ELSE IF Head(tokens) \in Range(vocab)
         THEN FitVocab(Tail(tokens), vocab)
         ELSE FitVocab(Tail(tokens), Append(vocab, Head(tokens)))

RECURSIVE Flatten(_)
Flatten(ss) == IF ss = <<>> THEN <<>> ELSE Head(ss) \o Flatten(Tail(ss))

\* v.VocabSize()
VocabSize(v) == Len(v.vocab)

\* A SparseVector: its dimension and the columns holding 1.0.
SparseVector(dim, cols) == [Dim |-> dim, cols |-> cols]

\* v.Transform(tokens): tokens outside the vocabulary are dropped.
Transform(v, tokens) ==
    SparseVector(VocabSize(v),
                 {FirstPos(v.vocab, t) - 1 : t \in Range(tokens) \cap Range(v.vocab)})

RECURSIVE ConcatSparse(_)
\* vectorizer.ConcatSparse: columns offset by the dimensions before them.
ConcatSparse(vectors) ==
    IF vectors = <<>> THEN SparseVector(0, {})
    ELSE LET front == ConcatSparse(SubSeq(vectors, 1, Len(vectors) - 1))
             back  == vectors[Len(vectors)]
         IN  SparseVector(front.Dim + back.Dim,
                          front.cols \cup {front.Dim + k : k \in back.cols})

----------------------------------------------------------------------------
(* PageTypeModel                                                           *)

\* No model constructed or loaded yet.
NoModel ==
    [exists |-> FALSE, Classes |-> <<>>, Coef |-> <<>>, Intercept |-> <<>>,
     Pipelines |-> <<>>, dictVecs |-> <<>>, tfidfVecs |-> <<>>,
     vecTypes |-> <<>>, vecDims |-> <<>>]

\* A probability softmax can return, and the -1.0 Classify starts from.
MinusOne == <<-1, 1>>

----------------------------------------------------------------------------
(* TrainPageType                                                           *)

\* The text or mapping tokens pipeline pipe extracts from every document.
\* The URL pipeline is given urls[j]; urls[j] is the document's own url.
Corpus(pipe, docs) ==
    [j \in DOMAIN docs |->
        IF pipe.VecType = "dict"
        THEN ExtractDict(pipe.Extractor, docs[j])
        ELSE IF pipe.Extractor = "PageURL"
             THEN ExtractString("PageURL", docs[j], docs[j].url)
             ELSE ExtractString(pipe.Extractor, docs[j], <<>>)]

\* dv.FitTransform / tv.FitTransform: the fitted vectorizer of the pipeline;
\* no vectorizer for a kind the switch has no case for.
FitVectorizer(pipe, docs) ==
    IF pipe.VecType \in {"dict", "tfidf"}
    THEN Vec(FitVocab(Flatten(Corpus(pipe, docs)), <<>>))
    ELSE NilVec

\* allVectors[i]: one vector per document, nil for a kind without a case.
AllVectors(pipe, docs) ==
    IF pipe.VecType \in {"dict", "tfidf"}
    THEN [j \in DOMAIN docs |->
            Transform(FitVectorizer(pipe, docs), Corpus(pipe, docs)[j])]
    ELSE <<>>

\* The SerializedPipeline sp built for pipeline pipe.
SerializedPipeline(pipe, docs) ==
    [Name          |-> pipe.Name,
     ExtractorType |-> pageExtractorTypeName(pipe.Extractor),
     VecType       |-> pipe.VecType,
     DictVec       |-> IF pipe.VecType = "dict" THEN FitVectorizer(pipe, docs) ELSE NilVec,
     TfidfVec      |-> IF pipe.VecType = "tfidf" THEN FitVectorizer(pipe, docs) ELSE NilVec]

\* One step of the class loop without the `if _, ok := classSet[l]; !ok` test.
ClassStepNoTest(st, l) ==
    [classSet |-> (l :> Len(st.classes)) @@ st.classSet,
     classes  |-> Append(st.classes, l)]

\* One step of the class loop: a label not yet in classSet gets index
\* len(classes) and is appended to classes.
ClassStep(st, l) ==
    IF l \in DOMAIN st.classSet
    THEN st
    ELSE [classSet |-> st.classSet @@ (l :> Len(st.classes)),
          classes  |-> Append(st.classes, l)]

RECURSIVE ClassLoop(_, _)
\* for _, l := range labels
ClassLoop(labels, st) ==
    IF labels = <<>> THEN st
    ELSE ClassLoop(Tail(labels), ClassStep(st, Head(labels)))

\* classSet and classes after the loop over labels.
ClassesOf(labels) == ClassLoop(labels, [classSet |-> << >>, classes |-> << >>])

\* classCounts[c] after `for _, yi := range y { classCounts[yi]++ }`.
ClassCounts(y, numClasses) ==
    [c \in 1..numClasses |-> Cardinality({j \in DOMAIN y : y[j] = c - 1})]

\* The class weight without the class count in the denominator.
ClassWeightNoNumClasses(n, numClasses, count) ==
    IF count > 0 THEN Rat(n, count) ELSE <<1, 1>>

\* classWeights[c]: n / (numClasses * classCounts[c]), 1.0 for an empty class.
ClassWeight(n, numClasses, count) ==
    IF count > 0 THEN Rat(n, numClasses * count) ELSE <<1, 1>>

\* sampleWeights: nil unless config.BalanceClass.
SampleWeights(y, n, numClasses, BalanceClass) ==
    IF BalanceClass
    THEN LET classCounts  == ClassCounts(y, numClasses)
             classWeights == [c \in 1..numClasses |->
                                 ClassWeight(n, numClasses, classCounts[c])]
         IN  [j \in 1..n |-> classWeights[y[j] + 1]]
    ELSE <<>>

\* The weight trainLogReg gives sample j: sampleWeights[j], 1.0 when nil.
EffectiveWeight(sampleWeights, j) ==
    IF sampleWeights = <<>> THEN <<1, 1>> ELSE sampleWeights[j]

\* What trainLogReg can return: numClasses rows of width totalDim and
\* numClasses intercepts.  Three fits stand for its results: all zero (every
\* document ties), a weight on the first class only, an intercept on the
\* last class only.
FitResults(numClasses, totalDim) ==
    {[coef      |-> [c \in 1..numClasses |-> [k \in 1..totalDim |->
                        IF w /\ c = 1 THEN 1 ELSE 0]],
      intercept |-> [c \in 1..numClasses |-> IF b /\ c = numClasses THEN 1 ELSE 0]] :
        <<w, b>> \in {<<FALSE, FALSE>>, <<TRUE, FALSE>>, <<FALSE, TRUE>>}}

\* The whole of TrainPageType up to the call of trainLogReg: the model under
\* construction, the locals, and the line of the first panic (0: none).
TrainLocals(docs, labels, BalanceClass) ==
    LET pipelines  == DefaultPageFeaturePipelines
        n          == Len(docs)
        allVectors == [i \in DOMAIN pipelines |-> AllVectors(pipelines[i], docs)]
        nilColumn  == \E i \in DOMAIN pipelines : Len(allVectors[i]) < n
        xData      == IF nilColumn THEN <<>>
                      ELSE [j \in 1..n |->
                              ConcatSparse([i \in DOMAIN pipelines |-> allVectors[i][j]])]
        cs         == ClassesOf(labels)
        numClasses == Len(cs.classes)
        panicLine  == CASE nilColumn        -> 177
                        [] n = 0            -> 192
                        [] Len(labels) < n  -> 197
                        [] OTHER            -> 0
        y          == IF panicLine = 0
                      THEN [j \in 1..n |-> cs.classSet[labels[j]]]
                      ELSE <<>>
    IN  [panicLine     |-> panicLine,
         n             |-> n,
         xData         |-> xData,
         classes       |-> cs.classes,
         numClasses    |-> numClasses,
         totalDim      |-> IF panicLine = 0 THEN xData[1].Dim ELSE 0,
         y             |-> y,
         sampleWeights |-> IF panicLine = 0
                           THEN SampleWeights(y, n, numClasses, BalanceClass)
                           ELSE <<>>,
         Pipelines     |-> [i \in DOMAIN pipelines |->
                              SerializedPipeline(pipelines[i], docs)],
         dictVecs      |-> [i \in DOMAIN pipelines |->
                              IF pipelines[i].VecType = "dict"
                              THEN FitVectorizer(pipelines[i], docs) ELSE NilVec],
         tfidfVecs     |-> [i \in DOMAIN pipelines |->
                              IF pipelines[i].VecType = "tfidf"
                              THEN FitVectorizer(pipelines[i], docs) ELSE NilVec],
         vecTypes      |-> [i \in DOMAIN pipelines |-> pipelines[i].VecType],
         vecDims       |-> [i \in DOMAIN pipelines |->
                              VocabSize(FitVectorizer(pipelines[i], docs))]]

\* The arguments of the last call and the result of it, when there is none.
NoCall == [op |-> "none", docs |-> <<>>, labels |-> <<>>, BalanceClass |-> FALSE,
           doc |-> DocBlank, html |-> [forms |-> <<>>, outside |-> <<>>],
           pkg |-> "", index |-> 0, s |-> "",
           before |-> NoModel,
           fs |-> [cwd |-> 0, getwd |-> TRUE, file |-> {}, gomod |-> {}, home |-> "none"]]
NoRet == [outcome |-> "none", panicLine |-> 0, class |-> "", proba |-> <<>>,
          err |-> "", isNil |-> TRUE, forms |-> <<>>, captcha |-> "",
          captchaType |-> "", valid |-> FALSE,
          str |-> <<>>, dict |-> [nil |-> TRUE, keys |-> {}], pipelines |-> <<>>,
          path |-> [at |-> "", dir |-> 0]]
NoLocals == [n |-> 0, classes |-> <<>>, numClasses |-> 0, totalDim |-> 0,
             y |-> <<>>, sampleWeights |-> <<>>, xData |-> <<>>,
             features |-> SparseVector(0, {}),
             logits |-> <<>>, proba |-> <<>>, order |-> <<>>, steps |-> <<>>,
             pc |-> "", dir |-> 0]

\* TrainPageType(docs, formResults, urls, labels, config): returns the model,
\* which the process then holds, unless it panics on the way.  formResults
\* and urls are as long as docs (urls[j] is docs[j].url).
TrainPageType(docs, labels, BalanceClass) ==
    LET t == TrainLocals(docs, labels, BalanceClass) IN
    /\ ~model.exists
    /\ call' = [NoCall EXCEPT !.op = "TrainPageType", !.docs = docs,
                              !.labels = labels, !.BalanceClass = BalanceClass]
    /\ locals' = [NoLocals EXCEPT !.n = t.n, !.classes = t.classes,
                                  !.numClasses = t.numClasses,
                                  !.totalDim = t.totalDim, !.y = t.y,
                                  !.sampleWeights = t.sampleWeights,
                                  !.xData = t.xData]
    /\ IF t.panicLine # 0
       THEN /\ ret' = [NoRet EXCEPT !.outcome = "panic", !.panicLine = t.panicLine]
            /\ model' = model
       ELSE \E fit \in FitResults(t.numClasses, t.totalDim) :
            /\ ret' = [NoRet EXCEPT !.outcome = "ok"]
            /\ model' = [exists    |-> TRUE,
                         Classes   |-> t.classes,
                         Coef      |-> fit.coef,
                         Intercept |-> fit.intercept,
                         Pipelines |-> t.Pipelines,
                         dictVecs  |-> t.dictVecs,
                         tfidfVecs |-> t.tfidfVecs,
                         vecTypes  |-> t.vecTypes,
                         vecDims   |-> t.vecDims]
    /\ UNCHANGED clf

----------------------------------------------------------------------------
(* Persistence: a model read back from JSON, and InitRuntime               *)

\* json.Unmarshal into a PageTypeModel: the four serialized fields are
\* set, the runtime fields are left nil.
Deserialized(m) ==
    [exists |-> TRUE, Classes |-> m.Classes, Coef |-> m.Coef,
     Intercept |-> m.Intercept, Pipelines |-> m.Pipelines,
     dictVecs |-> <<>>, tfidfVecs |-> <<>>, vecTypes |-> <<>>, vecDims |-> <<>>]

DropLast(s) == SubSeq(s, 1, Len(s) - 1)

\* Ways a persisted file can disagree with itself, and a file whose title
\* pipeline names the count kind of the n-gram vectorizer.
Damages == {"none", "narrow", "wide", "fewrows", "shortintercept", "countkind"}

\* A persisted model whose coefficient matrix or intercepts were damaged.
Damaged(m, damage) ==
    CASE damage = "narrow"  -> [m EXCEPT !.Coef = [c \in DOMAIN m.Coef |-> DropLast(m.Coef[c])]]
      [] damage = "wide"    -> [m EXCEPT !.Coef = [c \in DOMAIN m.Coef |-> Append(m.Coef[c], 0)]]
      [] damage = "fewrows" -> [m EXCEPT !.Coef = DropLast(m.Coef)]
      [] damage = "shortintercept" -> [m EXCEPT !.Intercept = DropLast(m.Intercept)]
      [] damage = "countkind" ->
            [m EXCEPT !.Pipelines = [i \in DOMAIN @ |->
                IF @[i].Name = "title" THEN [@[i] EXCEPT !.VecType = "count"] ELSE @[i]]]
      [] OTHER -> m

\* The sum of the pipelines' vocabulary sizes of a persisted model.
PersistedDim(m) ==
    SumSeq([i \in DOMAIN m.Pipelines |->
              VocabSize(m.Pipelines[i].DictVec) + VocabSize(m.Pipelines[i].TfidfVec)])

\* Dimension integrity of a persisted model.
Consistent(m) ==
    /\ Len(m.Coef) = Len(m.Classes)
    /\ Len(m.Intercept) = Len(m.Classes)
    /\ \A c \in DOMAIN m.Coef : Len(m.Coef[c]) = PersistedDim(m)

\* The process saves its model and reads it back.
Reload ==
    /\ model.exists
    /\ model' = Deserialized(model)
    /\ call' = [NoCall EXCEPT !.op = "Reload", !.before = model]
    /\ ret' = [NoRet EXCEPT !.outcome = "ok"]
    /\ locals' = NoLocals
    /\ UNCHANGED clf

\* The corpus the persisted files of LoadFile were trained on.
FileDocs == <<DocLogin, DocSearch>>
FileLabels == <<"login", "search">>

\* The process reads a model file written elsewhere, intact or damaged.
LoadFile(damage) ==
    LET t == TrainLocals(FileDocs, FileLabels, TRUE) IN
    /\ ~model.exists
    /\ \E fit \in FitResults(t.numClasses, t.totalDim) :
         model' = Damaged(Deserialized([Classes |-> t.classes, Coef |-> fit.coef,
                                        Intercept |-> fit.intercept,
                                        Pipelines |-> t.Pipelines]), damage)
    /\ call' = [NoCall EXCEPT !.op = "LoadFile", !.before = model]
    /\ ret' = [NoRet EXCEPT !.outcome = "ok"]
    /\ locals' = NoLocals
    /\ UNCHANGED clf

\* Whether pipeline p lacks the vectorizer its VecType names (VocabSize
\* then dereferences nil).
LacksVectorizer(p) ==
    \/ p.VecType = "dict" /\ p.DictVec.nil
    \/ p.VecType = "tfidf" /\ p.TfidfVec.nil

\* InitRuntime recording the kinds and the vectorizers but no dimension.
RuntimeOfNoDims(m) ==
    [panic     |-> \E i \in DOMAIN m.Pipelines : LacksVectorizer(m.Pipelines[i]),
     dictVecs  |-> [i \in DOMAIN m.Pipelines |->
                      IF m.Pipelines[i].VecType = "dict"
                      THEN m.Pipelines[i].DictVec ELSE NilVec],
     tfidfVecs |-> [i \in DOMAIN m.Pipelines |->
                      IF m.Pipelines[i].VecType = "tfidf"
                      THEN m.Pipelines[i].TfidfVec ELSE NilVec],
     vecTypes  |-> [i \in DOMAIN m.Pipelines |-> m.Pipelines[i].VecType],
     vecDims   |-> [i \in DOMAIN m.Pipelines |-> 0]]

\* The runtime fields InitRuntime leaves in m: the loop stops, by a panic,
\* at the first pipeline that lacks its vectorizer (stop = 0: no panic);
\* entries after it keep the zero values of make().
RuntimeOf(m) ==
    LET bad  == {i \in DOMAIN m.Pipelines : LacksVectorizer(m.Pipelines[i])}
        stop == IF bad = {} THEN 0 ELSE CHOOSE i \in bad : \A k \in bad : i <= k
        done(i) == stop = 0 \/ i <= stop
    IN
    [panic     |-> stop # 0,
     dictVecs  |-> [i \in DOMAIN m.Pipelines |->
                      IF done(i) /\ m.Pipelines[i].VecType = "dict"
                      THEN m.Pipelines[i].DictVec ELSE NilVec],
     tfidfVecs |-> [i \in DOMAIN m.Pipelines |->
                      IF done(i) /\ m.Pipelines[i].VecType = "tfidf"
                      THEN m.Pipelines[i].TfidfVec ELSE NilVec],
     vecTypes  |-> [i \in DOMAIN m.Pipelines |->
                      IF done(i) THEN m.Pipelines[i].VecType ELSE ""],
     vecDims   |-> [i \in DOMAIN m.Pipelines |->
                      IF ~done(i) \/ i = stop THEN 0
                      ELSE CASE m.Pipelines[i].VecType = "dict"  -> VocabSize(m.Pipelines[i].DictVec)
                             [] m.Pipelines[i].VecType = "tfidf" -> VocabSize(m.Pipelines[i].TfidfVec)
                             [] OTHER -> 0]]

\* m.InitRuntime(): no return value, no check of Coef or Intercept.
InitRuntime ==
    LET r == RuntimeOf(model) IN
    /\ model.exists
    /\ call' = [NoCall EXCEPT !.op = "InitRuntime", !.before = model]
    /\ locals' = NoLocals
    /\ IF r.panic
       THEN /\ ret' = [NoRet EXCEPT !.outcome = "panic", !.panicLine = 102]
            /\ model' = [model EXCEPT !.dictVecs = r.dictVecs, !.tfidfVecs = r.tfidfVecs,
                                      !.vecTypes = r.vecTypes, !.vecDims = r.vecDims]
       ELSE /\ ret' = [NoRet EXCEPT !.outcome = "ok"]
            /\ model' = [model EXCEPT !.dictVecs = r.dictVecs, !.tfidfVecs = r.tfidfVecs,
                                      !.vecTypes = r.vecTypes, !.vecDims = r.vecDims]
    /\ UNCHANGED clf

----------------------------------------------------------------------------
(* Inference: extractFeatures, ClassifyProba, Classify                     *)

\* The vector of pipeline i with a nil vecTypes read as "no vector".
PipelineVectorLenient(m, i, pipe, doc) ==
    IF i > Len(m.vecTypes)
    THEN [panic |-> FALSE, vec |-> SparseVector(0, {})]
    ELSE CASE m.vecTypes[i] = "dict" ->
                IF m.dictVecs[i].nil
                THEN [panic |-> TRUE, vec |-> SparseVector(0, {})]
                ELSE [panic |-> FALSE,
                      vec |-> Transform(m.dictVecs[i], ExtractDict(pipe.Extractor, doc))]
           [] m.vecTypes[i] = "tfidf" ->
                IF m.tfidfVecs[i].nil
                THEN [panic |-> TRUE, vec |-> SparseVector(0, {})]
                ELSE [panic |-> FALSE,
                      vec |-> Transform(m.tfidfVecs[i],
                                        ExtractString(pipe.Extractor, doc, <<>>))]
           [] OTHER -> [panic |-> FALSE, vec |-> SparseVector(0, {})]

\* One turn of the loop of extractFeatures: m.vecTypes[i] panics when i is
\* out of range, a nil vectorizer panics in Transform, a kind without a case
\* leaves the zero SparseVector.  The extractor is the pipeline's own (the
\* URL extractor of DefaultPageFeaturePipelines carries no URL).
PipelineVector(m, i, pipe, doc) ==
    IF i > Len(m.vecTypes)
    THEN [panic |-> TRUE, vec |-> SparseVector(0, {})]
    ELSE CASE m.vecTypes[i] = "dict" ->
                IF m.dictVecs[i].nil
                THEN [panic |-> TRUE, vec |-> SparseVector(0, {})]
                ELSE [panic |-> FALSE,
                      vec |-> Transform(m.dictVecs[i], ExtractDict(pipe.Extractor, doc))]
           [] m.vecTypes[i] = "tfidf" ->
                IF m.tfidfVecs[i].nil
                THEN [panic |-> TRUE, vec |-> SparseVector(0, {})]
                ELSE [panic |-> FALSE,
                      vec |-> Transform(m.tfidfVecs[i],
                                        ExtractString(pipe.Extractor, doc, <<>>))]
           [] OTHER -> [panic |-> FALSE, vec |-> SparseVector(0, {})]

\* extractFeatures concatenating the pipelines' vectors last pipeline first.
extractFeaturesReversed(m, doc) ==
    LET pipelines == DefaultPageFeaturePipelines
        pv == [i \in DOMAIN pipelines |-> PipelineVector(m, i, pipelines[i], doc)]
    IN  IF \E i \in DOMAIN pipelines : pv[i].panic
        THEN [panic |-> TRUE, features |-> SparseVector(0, {})]
        ELSE [panic |-> FALSE,
              features |-> ConcatSparse([i \in DOMAIN pipelines |->
                                           pv[Len(pipelines) + 1 - i].vec])]

\* m.extractFeatures(doc, formResults)
extractFeatures(m, doc) ==
    LET pipelines == DefaultPageFeaturePipelines
        pv == [i \in DOMAIN pipelines |-> PipelineVector(m, i, pipelines[i], doc)]
    IN  IF \E i \in DOMAIN pipelines : pv[i].panic
        THEN [panic |-> TRUE, features |-> SparseVector(0, {})]
        ELSE [panic |-> FALSE,
              features |-> ConcatSparse([i \in DOMAIN pipelines |-> pv[i].vec])]

\* features.Dot(row): the sum of row over the columns holding 1.0.  A column
\* beyond the row is outside what the source shows: oob says whether the
\* product then panics or skips the column.
Dot(features, row, oob) ==
    LET inside == {k \in features.cols : k < Len(row)} IN
    [panic |-> inside # features.cols /\ oob = "panic",
     value |-> SumSeq([k \in 1..Len(row) |-> IF (k - 1) \in inside THEN row[k] ELSE 0])]

\* exp(d) for d <= 0, in thousandths; it underflows to 0.
ExpMilli(d) ==
    CASE d = 0  -> 1000
      [] d = -1 -> 368
      [] d = -2 -> 135
      [] d = -3 -> 50
      [] d = -4 -> 18
      [] d = -5 -> 7
      [] d = -6 -> 2
      [] OTHER  -> 0

\* softmax(logits): subtract the maximum, exponentiate, normalise.
softmax(logits) ==
    IF logits = <<>> THEN <<>>
    ELSE LET mx  == CHOOSE v \in Range(logits) : \A w \in Range(logits) : w <= v
             e   == [c \in DOMAIN logits |-> ExpMilli(logits[c] - mx)]
             sum == SumSeq(e)
         IN  [c \in DOMAIN logits |-> Rat(e[c], sum)]

\* The body of ClassifyProba: features, then one logit per class in
\* Classes order (Coef[c] is read before Intercept[c]), then the map
\* class -> probability (a repeated class keeps its last probability).
ProbaOf(m, doc, oob) ==
    LET ef         == extractFeatures(m, doc)
        numClasses == Len(m.Classes)
        rowPanic(c) == \/ c > Len(m.Coef)
                       \/ Dot(ef.features, m.Coef[c], oob).panic
                       \/ c > Len(m.Intercept)
        bad        == {c \in 1..numClasses : rowPanic(c)}
        stop       == IF bad = {} THEN 0 ELSE CHOOSE c \in bad : \A k \in bad : c <= k
        computed   == IF stop = 0 THEN numClasses ELSE stop - 1
        logits     == [c \in 1..computed |->
                         Dot(ef.features, m.Coef[c], oob).value + m.Intercept[c]]
        probs      == softmax(logits)
    IN  IF ef.panic
        THEN [panic |-> TRUE, panicLine |-> 77, features |-> ef.features,
              logits |-> <<>>, proba |-> <<>>]
        ELSE IF stop # 0
        THEN [panic |-> TRUE, panicLine |-> 60, features |-> ef.features,
              logits |-> logits, proba |-> <<>>]
        ELSE [panic |-> FALSE, panicLine |-> 0, features |-> ef.features,
              logits |-> logits,
              proba |-> [cls \in Range(m.Classes) |->
                           probs[CHOOSE c \in DOMAIN m.Classes :
                                   /\ m.Classes[c] = cls
                                   /\ \A k \in DOMAIN m.Classes :
                                        m.Classes[k] = cls => k <= c]]]

\* ClassifyProba over vectorizers whose Transform gives a column to every
\* token of the title it has not seen.
ClassifyProbaFitsUnseen(doc, oob) ==
    LET p == ProbaOf(model, doc, oob) IN
    /\ model.exists
    /\ call' = [NoCall EXCEPT !.op = "ClassifyProba", !.doc = doc, !.before = model]
    /\ locals' = [NoLocals EXCEPT !.features = p.features, !.logits = p.logits,
                                  !.proba = p.proba]
    /\ ret' = IF p.panic
              THEN [NoRet EXCEPT !.outcome = "panic", !.panicLine = p.panicLine]
              ELSE [NoRet EXCEPT !.outcome = "ok", !.proba = p.proba]
    /\ model' = IF p.panic THEN model
                ELSE [model EXCEPT !.tfidfVecs =
                        [i \in DOMAIN @ |->
                            IF @[i].nil THEN @[i]
                            ELSE Vec(FitVocab(ExtractString(
                                        DefaultPageFeaturePipelines[i].Extractor, doc, <<>>),
                                     @[i].vocab))]]
    /\ UNCHANGED clf

\* m.ClassifyProba(doc, formResults)
ClassifyProba(doc, oob) ==
    LET p == ProbaOf(model, doc, oob) IN
    /\ model.exists
    /\ call' = [NoCall EXCEPT !.op = "ClassifyProba", !.doc = doc, !.before = model]
    /\ locals' = [NoLocals EXCEPT !.features = p.features, !.logits = p.logits,
                                  !.proba = p.proba]
    /\ ret' = IF p.panic
              THEN [NoRet EXCEPT !.outcome = "panic", !.panicLine = p.panicLine]
              ELSE [NoRet EXCEPT !.outcome = "ok", !.proba = p.proba]
    /\ UNCHANGED <<model, clf>>

\* The start value of bestProb set to the largest probability.
InitialBestProbOne == <<1, 1>>

\* bestProb := -1.0
InitialBestProb == MinusOne

\* One turn of the argmax loop that forgets to raise bestProb.
BestStepKeepsBound(best, cls, prob) ==
    IF RatGT(prob, best.bestProb)
    THEN [bestClass |-> cls, bestProb |-> best.bestProb]
    ELSE best

\* One turn of the argmax loop: if prob > bestProb { bestProb, bestClass = prob, cls }
BestStep(best, cls, prob) ==
    IF RatGT(prob, best.bestProb)
    THEN [bestClass |-> cls, bestProb |-> prob]
    ELSE best

RECURSIVE BestLoop(_, _, _)
\* for cls, prob := range proba, visiting the keys in the given order
BestLoop(order, proba, best) ==
    IF order = <<>> THEN best
    ELSE BestLoop(Tail(order), proba, BestStep(best, Head(order), proba[Head(order)]))

\* The orders in which `range proba` can visit the keys: Go leaves the
\* iteration order of a map unspecified and randomizes it per loop.
MapRangeOrders(proba) == Orders(DOMAIN proba)

\* m.Classify(doc, formResults)
Classify(doc, oob) ==
    LET p == ProbaOf(model, doc, oob) IN
    /\ model.exists
    /\ call' = [NoCall EXCEPT !.op = "Classify", !.doc = doc, !.before = model]
    /\ IF p.panic
       THEN /\ locals' = [NoLocals EXCEPT !.features = p.features, !.logits = p.logits]
            /\ ret' = [NoRet EXCEPT !.outcome = "panic", !.panicLine = p.panicLine]
       ELSE \E order \in MapRangeOrders(p.proba) :
            /\ locals' = [NoLocals EXCEPT !.features = p.features, !.logits = p.logits,
                                          !.proba = p.proba, !.order = order]
            /\ ret' = [NoRet EXCEPT !.outcome = "ok",
                          !.class = BestLoop(order, p.proba,
                                             [bestClass |-> "",
                                              bestProb |-> InitialBestProb]).bestClass]
    /\ UNCHANGED <<model, clf>>

----------------------------------------------------------------------------
(* The facade: dit.Classifier                                              *)

\* A Classifier value: whether c.fc is non-nil, and whether fc.FormModel
\* and fc.PageModel are.
Classifiers ==
    {c \in [fc : BOOLEAN, FormModel : BOOLEAN, PageModel : BOOLEAN] :
        ~c.fc => ~c.FormModel /\ ~c.PageModel}

\* &Classifier{}: fc is nil.
ZeroClassifier == [fc |-> FALSE, FormModel |-> FALSE, PageModel |-> FALSE]

\* The CaptchaType constants some rule names directly (package captcha).
CaptchaTypeNone == "none"

CaptchaTypePuzzleCaptcha == "puzzlecaptcha"

CaptchaTypeSimple == "simplecaptcha"

CaptchaTypeOther == "other"

\* The const block of package captcha: the string value of every CaptchaType
\* constant, in declaration order.
CaptchaTypeConstants ==
    <<"none", "recaptcha", "recaptchav2", "recaptcha-invisible", "hcaptcha",
      "turnstile", "geetest", "friendlycaptcha", "rotatecaptcha", "clickcaptcha",
      "imagecaptcha", "puzzlecaptcha", "slidercaptcha", "mcaptcha", "datadome",
      "perimeterx", "argon", "behaviotech", "smartcaptcha", "yandex",
      "funcaptcha", "kasada", "imperva", "awswaf", "wsiz", "novascape",
      "simplecaptcha", "other">>

\* The cases of the switch of captcha.IsValidCaptchaType, in source order.
switchCases ==
    <<"none", "recaptcha", "recaptchav2", "recaptcha-invisible", "hcaptcha",
      "turnstile", "geetest", "friendlycaptcha", "rotatecaptcha", "clickcaptcha",
      "imagecaptcha", "puzzlecaptcha", "slidercaptcha", "mcaptcha", "datadome",
      "perimeterx", "argon", "behaviotech", "smartcaptcha", "yandex",
      "funcaptcha", "kasada", "imperva", "awswaf", "wsiz", "novascape",
      "simplecaptcha", "other">>

\* validTypes of classifier.IsValidCaptchaType, in source order.
validTypes ==
    <<"none", "recaptcha", "recaptchav2", "recaptcha-invisible", "hcaptcha",
      "turnstile", "geetest", "friendlycaptcha", "rotatecaptcha", "clickcaptcha",
      "imagecaptcha", "puzzlecaptcha", "slidercaptcha", "mcaptcha", "datadome",
      "perimeterx", "argon", "behaviotech", "smartcaptcha", "yandex",
      "funcaptcha", "kasada", "imperva", "awswaf", "wsiz", "novascape",
      "simplecaptcha", "other">>

\* The switch with an upper-case spelling accepted as well.
IsValidCaptchaTypeFold(s) ==
    s = "RECAPTCHA" \/ \E k \in DOMAIN switchCases : s = switchCases[k]

\* captcha.IsValidCaptchaType(s): a switch on the string itself.
IsValidCaptchaType(s) == \E k \in DOMAIN switchCases : s = switchCases[k]

\* classifier.IsValidCaptchaType(s): CaptchaType(s) == t for some t of validTypes.
classifierIsValidCaptchaType(s) == \E k \in DOMAIN validTypes : s = validTypes[k]

(* Markup.  An element of the inputs is given by its tag and by what the   *)
(* detector's tests find in it: html, the literals of the rule tables that *)
(* occur in its lower-cased markup (strings.Contains on form.Html()); re,  *)
(* the regular expressions of DetectCaptchaInHTML that match its           *)
(* lower-cased markup; attr, those of them that match inside its tags;     *)
(* srcRe and srcLit, the script expressions and the                        *)
(* iframe literals that match its lower-cased src attribute; id and alt,   *)
(* the literals that occur in its lower-cased id and alt attributes; text, *)
(* the keywords that occur in the lower-cased text of a script.  The       *)
(* markup of each element is the comment above it.                         *)

\* <input type="email" name="email"/>
EmailInput ==
    [tag |-> "input",
     html |-> {},
     re |-> {},
     attr |-> {},
     srcRe |-> {},
     srcLit |-> {},
     id |-> {},
     alt |-> {},
     text |-> {}]

\* <div class="g-recaptcha" data-sitekey="6LdpXXXXXXXXXXXXXXXXXXXX"></div>
GRecaptchaDiv ==
    [tag |-> "div",
     html |-> {"g-recaptcha", "captcha", "recaptcha"},
     re |-> {"class=\"[^\"]*g-recaptcha"},
     attr |-> {"class=\"[^\"]*g-recaptcha"},
     srcRe |-> {},
     srcLit |-> {},
     id |-> {},
     alt |-> {},
     text |-> {}]

\* <div class="h-captcha" data-sitekey="10000000-ffff-ffff-ffff-000000000001"></div>
HCaptchaDiv ==
    [tag |-> "div",
     html |-> {"h-captcha", "captcha"},
     re |-> {"class=\"[^\"]*h-captcha"},
     attr |-> {"class=\"[^\"]*h-captcha"},
     srcRe |-> {},
     srcLit |-> {},
     id |-> {},
     alt |-> {},
     text |-> {}]

\* <script src="https://www.google.com/recaptcha/api.js"></script>
RecaptchaScript ==
    [tag |-> "script",
     html |-> {"captcha", "recaptcha", "google.com/recaptcha",
               "recaptcha/api.js"},
     re |-> {"src=\"[^\"]*google\\.com/recaptcha",
             "src=\"[^\"]*recaptcha/api\\.js"},
     attr |-> {"src=\"[^\"]*google\\.com/recaptcha",
               "src=\"[^\"]*recaptcha/api\\.js"},
     srcRe |-> {"google\\.com/recaptcha", "recaptcha.*\\.js",
                "recaptcha/api\\.js"},
     srcLit |-> {},
     id |-> {},
     alt |-> {},
     text |-> {}]

\* <script src="https://js.hcaptcha.com/1/api.js" async defer></script>
HCaptchaScript ==
    [tag |-> "script",
     html |-> {"hcaptcha", "captcha", "js.hcaptcha.com"},
     re |-> {"src=\"[^\"]*js\\.hcaptcha\\.com"},
     attr |-> {"src=\"[^\"]*js\\.hcaptcha\\.com"},
     srcRe |-> {"js\\.hcaptcha\\.com", "hcaptcha"},
     srcLit |-> {},
     id |-> {},
     alt |-> {},
     text |-> {}]

\* <div data-px="app123"></div>
PxDiv ==
    [tag |-> "div",
     html |-> {"data-px"},
     re |-> {"data-px"},
     attr |-> {"data-px"},
     srcRe |-> {},
     srcLit |-> {},
     id |-> {},
     alt |-> {},
     text |-> {}]

\* <div id="embed-captcha"></div>
EmbedCaptchaDiv ==
    [tag |-> "div",
     html |-> {"captcha"},
     re |-> {},
     attr |-> {},
     srcRe |-> {},
     srcLit |-> {},
     id |-> {"embed-captcha"},
     alt |-> {},
     text |-> {}]

\* <img alt="rotatecaptcha" src="/c.png"/>
RotateImg ==
    [tag |-> "img",
     html |-> {"captcha", "rotatecaptcha"},
     re |-> {"alt=\"[^\"]*rotatecaptcha"},
     attr |-> {"alt=\"[^\"]*rotatecaptcha"},
     srcRe |-> {},
     srcLit |-> {},
     id |-> {},
     alt |-> {"rotatecaptcha"},
     text |-> {}]

\* <input type="text" name="captcha_code"/>
CaptchaCodeInput ==
    [tag |-> "input",
     html |-> {"captcha_code", "captcha"},
     re |-> {"name=\"[^\"]*captcha_code"},
     attr |-> {"name=\"[^\"]*captcha_code"},
     srcRe |-> {},
     srcLit |-> {},
     id |-> {},
     alt |-> {},
     text |-> {}]

\* <iframe src="https://api.funcaptcha.com/fc/"></iframe>
FuncaptchaIframe ==
    [tag |-> "iframe",
     html |-> {"captcha", "funcaptcha", "iframe"},
     re |-> {"src=\"[^\"]*funcaptcha\\.com"},
     attr |-> {"src=\"[^\"]*funcaptcha\\.com"},
     srcRe |-> {},
     srcLit |-> {"funcaptcha"},
     id |-> {},
     alt |-> {},
     text |-> {}]

\* <label>Enter the captcha</label>
CaptchaLabel ==
    [tag |-> "label",
     html |-> {"captcha"},
     re |-> {},
     attr |-> {},
     srcRe |-> {},
     srcLit |-> {},
     id |-> {},
     alt |-> {},
     text |-> {}]

\* <script>var antibot = 1;</script>
AntibotScript ==
    [tag |-> "script",
     html |-> {},
     re |-> {},
     attr |-> {},
     srcRe |-> {},
     srcLit |-> {},
     id |-> {},
     alt |-> {},
     text |-> {"antibot"}]

\* <a href="/help">reCAPTCHA, hCaptcha and Turnstile help</a>
MentionLink ==
    [tag |-> "a",
     html |-> {"hcaptcha", "turnstile", "captcha", "recaptcha"},
     re |-> {},
     attr |-> {},
     srcRe |-> {},
     srcLit |-> {},
     id |-> {},
     alt |-> {},
     text |-> {}]

\* <p>Remove the data-px attribute</p>
DataPxText ==
    [tag |-> "p",
     html |-> {"data-px"},
     re |-> {"data-px"},
     attr |-> {},
     srcRe |-> {},
     srcLit |-> {},
     id |-> {},
     alt |-> {},
     text |-> {}]

\* <div id="arkose-frame"></div>
ArkoseDiv ==
    [tag |-> "div",
     html |-> {"arkose"},
     re |-> {},
     attr |-> {},
     srcRe |-> {},
     srcLit |-> {},
     id |-> {"arkose"},
     alt |-> {},
     text |-> {}]

\* <img alt="clickcaptcha" src="/k.png"/>
ClickImg ==
    [tag |-> "img",
     html |-> {"captcha", "clickcaptcha"},
     re |-> {"alt=\"[^\"]*clickcaptcha"},
     attr |-> {"alt=\"[^\"]*clickcaptcha"},
     srcRe |-> {},
     srcLit |-> {},
     id |-> {},
     alt |-> {"clickcaptcha"},
     text |-> {}]

\* <div class="g-recaptcha-v2"></div>
GRecaptchaV2Div ==
    [tag |-> "div",
     html |-> {"g-recaptcha", "g-recaptcha-v2", "captcha", "recaptcha"},
     re |-> {"class=\"[^\"]*g-recaptcha-v2", "class=\"[^\"]*g-recaptcha"},
     attr |-> {"class=\"[^\"]*g-recaptcha-v2", "class=\"[^\"]*g-recaptcha"},
     srcRe |-> {},
     srcLit |-> {},
     id |-> {},
     alt |-> {},
     text |-> {}]

\* <div class="g-recaptcha-invisible"></div>
GRecaptchaInvisibleDiv ==
    [tag |-> "div",
     html |-> {"g-recaptcha", "g-recaptcha-invisible", "captcha", "recaptcha"},
     re |-> {"class=\"[^\"]*g-recaptcha-invisible",
             "class=\"[^\"]*g-recaptcha"},
     attr |-> {"class=\"[^\"]*g-recaptcha-invisible",
               "class=\"[^\"]*g-recaptcha"},
     srcRe |-> {},
     srcLit |-> {},
     id |-> {},
     alt |-> {},
     text |-> {}]

\* classPatterns (detectByClasses)
classPatterns ==
    <<[captchaType |-> "recaptcha",
       patterns |-> <<"g-recaptcha", "grecaptcha">>],
      [captchaType |-> "recaptchav2",
       patterns |-> <<"g-recaptcha-v2", "grecaptcha-v2">>],
      [captchaType |-> "recaptcha-invisible",
       patterns |-> <<"g-recaptcha-invisible", "grecaptcha-invisible">>],
      [captchaType |-> "hcaptcha",
       patterns |-> <<"h-captcha", "hcaptcha">>],
      [captchaType |-> "turnstile",
       patterns |-> <<"cf-turnstile", "turnstile">>],
      [captchaType |-> "geetest",
       patterns |-> <<"geetest_", "geetest-box", "gee-test">>],
      [captchaType |-> "friendlycaptcha",
       patterns |-> <<"frc-captcha", "friendlycaptcha">>],
      [captchaType |-> "mcaptcha",
       patterns |-> <<"mcaptcha", "mcaptcha-container">>],
      [captchaType |-> "kasada",
       patterns |-> <<"kas", "kasada">>],
      [captchaType |-> "imperva",
       patterns |-> <<"_inc", "incapsula", "imperva">>],
      [captchaType |-> "awswaf",
       patterns |-> <<"aws-waf", "awswaf">>],
      [captchaType |-> "datadome",
       patterns |-> <<"dd-challenge", "dd-top">>],
      [captchaType |-> "perimeterx",
       patterns |-> <<"_px3", "px-container">>],
      [captchaType |-> "smartcaptcha",
       patterns |-> <<"smart-captcha", "smartcaptcha">>],
      [captchaType |-> "argon",
       patterns |-> <<"argon-captcha", "argon">>],
      [captchaType |-> "puzzlecaptcha",
       patterns |-> <<"puzzle-captcha", "__puzzle_captcha">>],
      [captchaType |-> "yandex",
       patterns |-> <<"smartcaptcha", "yandex-captcha">>],
      [captchaType |-> "funcaptcha",
       patterns |-> <<"funcaptcha-container">>]>>

\* scriptPatterns (detectByScriptDomain)
scriptPatterns ==
    <<[captchaType |-> "recaptcha",
       patterns |-> <<"google\\.com/recaptcha", "recaptcha.*\\.js", "gstatic\\.com/.*recaptcha">>],
      [captchaType |-> "recaptchav2",
       patterns |-> <<"recaptcha.*v2", "recaptcha/api\\.js">>],
      [captchaType |-> "recaptcha-invisible",
       patterns |-> <<"recaptcha.*invisible", "grecaptcha\\.render.*invisible">>],
      [captchaType |-> "hcaptcha",
       patterns |-> <<"js\\.hcaptcha\\.com", "hcaptcha">>],
      [captchaType |-> "turnstile",
       patterns |-> <<"challenges\\.cloudflare\\.com", "js\\.cloudflare\\.com.*turnstile">>],
      [captchaType |-> "geetest",
       patterns |-> <<"geetest", "api\\.geetest\\.com">>],
      [captchaType |-> "friendlycaptcha",
       patterns |-> <<"friendlycaptcha", "cdn\\.friendlycaptcha\\.com">>],
      [captchaType |-> "rotatecaptcha",
       patterns |-> <<"api\\.rotatecaptcha\\.com">>],
      [captchaType |-> "clickcaptcha",
       patterns |-> <<"assets\\.clickcaptcha\\.com">>],
      [captchaType |-> "imagecaptcha",
       patterns |-> <<"api\\.imagecaptcha\\.com">>],
      [captchaType |-> "puzzlecaptcha",
       patterns |-> <<"puzzle.*captcha">>],
      [captchaType |-> "slidercaptcha",
       patterns |-> <<"slider.*captcha", "api\\.slidercaptcha\\.com", "slidercaptcha\\.com">>],
      [captchaType |-> "datadome",
       patterns |-> <<"datadome\\.co", "cdn\\.mxpnl\\.com">>],
      [captchaType |-> "perimeterx",
       patterns |-> <<"perimeterx\\.net">>],
      [captchaType |-> "argon",
       patterns |-> <<"argon.*captcha", "captcha\\.argon">>],
      [captchaType |-> "behaviotech",
       patterns |-> <<"behaviotech\\.com">>],
      [captchaType |-> "smartcaptcha",
       patterns |-> <<"captcha\\.yandex\\.com", "smartcaptcha\\.yandex">>],
      [captchaType |-> "yandex",
       patterns |-> <<"yandex\\.com/.*captcha", "captcha\\.yandex", "smartcaptcha\\.yandex">>],
      [captchaType |-> "funcaptcha",
       patterns |-> <<"funcaptcha\\.com", "api\\.funcaptcha\\.com">>],
      [captchaType |-> "wsiz",
       patterns |-> <<"wsiz\\.com">>],
      [captchaType |-> "novascape",
       patterns |-> <<"novascape\\.com">>],
      [captchaType |-> "mcaptcha",
       patterns |-> <<"mcaptcha", "app\\.mcaptcha\\.io">>],
      [captchaType |-> "kasada",
       patterns |-> <<"kasada", "kas\\.kasadaproducts\\.com">>],
      [captchaType |-> "imperva",
       patterns |-> <<"/_Incapsula_Resource", "incapsula", "imperva">>],
      [captchaType |-> "awswaf",
       patterns |-> <<"/aws-waf-captcha/", "awswaf\\.com", "captcha\\.aws\\.amazon\\.com">>]>>

\* dataAttrPatterns (detectByDataAttributes)
dataAttrPatterns ==
    <<[captchaType |-> "kasada",
       patterns |-> <<"data-kasada", "kasada">>],
      [captchaType |-> "imperva",
       patterns |-> <<"data-incapsula", "data-imperva">>],
      [captchaType |-> "datadome",
       patterns |-> <<"data-datadome", "dd-challenge">>],
      [captchaType |-> "perimeterx",
       patterns |-> <<"data-px", "_pxappid">>],
      [captchaType |-> "mcaptcha",
       patterns |-> <<"data-mcaptcha">>],
      [captchaType |-> "smartcaptcha",
       patterns |-> <<"data-smartcaptcha", "smartcaptcha">>]>>

\* idPatterns (detectByIDsAndAlt)
idPatterns ==
    <<[captchaType |-> "geetest",
       patterns |-> <<"geetest", "gt-captcha", "embed-captcha">>],
      [captchaType |-> "recaptcha",
       patterns |-> <<"recaptcha">>],
      [captchaType |-> "hcaptcha",
       patterns |-> <<"hcaptcha", "h-captcha">>],
      [captchaType |-> "turnstile",
       patterns |-> <<"cf-turnstile", "turnstile">>],
      [captchaType |-> "funcaptcha",
       patterns |-> <<"funcaptcha", "arkose">>]>>

\* altPatterns (detectByIDsAndAlt)
altPatterns ==
    <<[captchaType |-> "rotatecaptcha",
       patterns |-> <<"rotatecaptcha">>],
      [captchaType |-> "clickcaptcha",
       patterns |-> <<"clickcaptcha">>],
      [captchaType |-> "imagecaptcha",
       patterns |-> <<"imagecaptcha">>],
      [captchaType |-> "puzzlecaptcha",
       patterns |-> <<"puzzlecaptcha">>],
      [captchaType |-> "slidercaptcha",
       patterns |-> <<"slidercaptcha">>],
      [captchaType |-> "simplecaptcha",
       patterns |-> <<"textcaptcha">>],
      [captchaType |-> "simplecaptcha",
       patterns |-> <<"text-captcha">>]>>

\* simpleCaptchaPatterns (detectByFieldNames)
simpleCaptchaPatterns ==
    <<"simplecaptcha", "captcha_code", "captcha_input", "verify_code",
      "verification_code", "security_code", "text_captcha", "captcha_result">>

\* iframePatterns (detectByIframe)
iframePatterns ==
    <<[captchaType |-> "recaptcha",
       patterns |-> <<"google.com/recaptcha", "www.google.com/recaptcha">>],
      [captchaType |-> "hcaptcha",
       patterns |-> <<"hcaptcha.com">>],
      [captchaType |-> "turnstile",
       patterns |-> <<"cloudflare.com/turnstile">>],
      [captchaType |-> "funcaptcha",
       patterns |-> <<"funcaptcha">>],
      [captchaType |-> "yandex",
       patterns |-> <<"yandex", "smartcaptcha">>]>>

\* genericMarkers (hasGenericCaptchaMarkers)
genericMarkers ==
    <<"captcha", "g-recaptcha", "h-captcha", "turnstile", "geetest">>

\* integrationPatterns (DetectCaptchaInHTML)
integrationPatterns ==
    <<[captchaType |-> "recaptcha-invisible",
       patterns |-> <<"class=\"[^\"]*g-recaptcha-invisible", "data-size=\"invisible\"">>],
      [captchaType |-> "recaptchav2",
       patterns |-> <<"class=\"[^\"]*g-recaptcha-v2">>],
      [captchaType |-> "recaptcha",
       patterns |-> <<"src=\"[^\"]*google\\.com/recaptcha", "src=\"[^\"]*gstatic\\.com/[^\"]*recaptcha", "src=\"[^\"]*recaptcha/api\\.js", "class=\"[^\"]*g-recaptcha">>],
      [captchaType |-> "hcaptcha",
       patterns |-> <<"src=\"[^\"]*js\\.hcaptcha\\.com", "class=\"[^\"]*h-captcha", "data-hcaptcha-widget-id">>],
      [captchaType |-> "turnstile",
       patterns |-> <<"src=\"[^\"]*challenges\\.cloudflare\\.com", "class=\"[^\"]*cf-turnstile">>],
      [captchaType |-> "geetest",
       patterns |-> <<"src=\"[^\"]*geetest", "class=\"[^\"]*geetest">>],
      [captchaType |-> "friendlycaptcha",
       patterns |-> <<"src=\"[^\"]*friendlycaptcha", "class=\"[^\"]*frc-captcha">>],
      [captchaType |-> "rotatecaptcha",
       patterns |-> <<"alt=\"[^\"]*rotatecaptcha", "src=\"[^\"]*rotatecaptcha">>],
      [captchaType |-> "clickcaptcha",
       patterns |-> <<"alt=\"[^\"]*clickcaptcha", "src=\"[^\"]*clickcaptcha">>],
      [captchaType |-> "imagecaptcha",
       patterns |-> <<"alt=\"[^\"]*imagecaptcha", "src=\"[^\"]*imagecaptcha">>],
      [captchaType |-> "puzzlecaptcha",
       patterns |-> <<"class=\"[^\"]*__puzzle_captcha">>],
      [captchaType |-> "slidercaptcha",
       patterns |-> <<"class=\"[^\"]*slider-captcha", "src=\"[^\"]*slidercaptcha">>],
      [captchaType |-> "mcaptcha",
       patterns |-> <<"src=\"[^\"]*mcaptcha", "class=\"[^\"]*mcaptcha", "data-mcaptcha">>],
      [captchaType |-> "kasada",
       patterns |-> <<"src=\"[^\"]*kasadaproducts\\.com", "data-kasada">>],
      [captchaType |-> "imperva",
       patterns |-> <<"src=\"[^\"]*/_incapsula_resource", "data-incapsula", "data-imperva">>],
      [captchaType |-> "awswaf",
       patterns |-> <<"src=\"[^\"]*aws-waf-captcha", "src=\"[^\"]*awswaf\\.com">>],
      [captchaType |-> "datadome",
       patterns |-> <<"src=\"[^\"]*datadome", "data-datadome", "class=\"[^\"]*dd-challenge">>],
      [captchaType |-> "perimeterx",
       patterns |-> <<"src=\"[^\"]*perimeterx", "data-px", "_pxappid">>],
      [captchaType |-> "argon",
       patterns |-> <<"class=\"[^\"]*argon-captcha">>],
      [captchaType |-> "behaviotech",
       patterns |-> <<"src=\"[^\"]*behaviotech\\.com">>],
      [captchaType |-> "smartcaptcha",
       patterns |-> <<"src=\"[^\"]*captcha\\.yandex", "class=\"[^\"]*smart-captcha", "data-smartcaptcha">>],
      [captchaType |-> "yandex",
       patterns |-> <<"src=\"[^\"]*smartcaptcha\\.yandex", "class=\"[^\"]*yandex-captcha">>],
      [captchaType |-> "funcaptcha",
       patterns |-> <<"src=\"[^\"]*funcaptcha\\.com", "src=\"[^\"]*arkoselabs\\.com", "class=\"[^\"]*funcaptcha">>],
      [captchaType |-> "wsiz",
       patterns |-> <<"src=\"[^\"]*wsiz\\.com">>],
      [captchaType |-> "novascape",
       patterns |-> <<"src=\"[^\"]*novascape">>],
      [captchaType |-> "simplecaptcha",
       patterns |-> <<"name=\"[^\"]*captcha_code", "name=\"[^\"]*captcha_input", "id=\"[^\"]*captcha_image">>]>>

\* classPatterns (detectByClasses), a Go map given in the order of its literal
classifierClassPatterns ==
    <<[captchaType |-> "recaptcha",
       patterns |-> <<"g-recaptcha", "grecaptcha">>],
      [captchaType |-> "recaptchav2",
       patterns |-> <<"g-recaptcha-v2", "grecaptcha-v2">>],
      [captchaType |-> "recaptcha-invisible",
       patterns |-> <<"g-recaptcha-invisible", "grecaptcha-invisible">>],
      [captchaType |-> "hcaptcha",
       patterns |-> <<"h-captcha", "hcaptcha">>],
      [captchaType |-> "turnstile",
       patterns |-> <<"cf-turnstile", "cloudflare-turnstile-challenge", "turnstile">>],
      [captchaType |-> "geetest",
       patterns |-> <<"geetest_", "geetest-box">>],
      [captchaType |-> "friendlycaptcha",
       patterns |-> <<"frc-captcha", "friendlycaptcha">>],
      [captchaType |-> "rotatecaptcha",
       patterns |-> <<"rotate-captcha", "rotatecaptcha">>],
      [captchaType |-> "clickcaptcha",
       patterns |-> <<"click-captcha", "clickcaptcha">>],
      [captchaType |-> "imagecaptcha",
       patterns |-> <<"image-captcha", "imagecaptcha">>],
      [captchaType |-> "puzzlecaptcha",
       patterns |-> <<"puzzle-captcha", "__puzzle_captcha">>],
      [captchaType |-> "slidercaptcha",
       patterns |-> <<"slider-captcha", "slidercaptcha", "slide-verify">>],
      [captchaType |-> "datadome",
       patterns |-> <<"dd-challenge", "dd-top">>],
      [captchaType |-> "perimeterx",
       patterns |-> <<"_px3", "px-container">>],
      [captchaType |-> "argon",
       patterns |-> <<"argon-captcha">>],
      [captchaType |-> "smartcaptcha",
       patterns |-> <<"smart-captcha">>],
      [captchaType |-> "yandex",
       patterns |-> <<"smartcaptcha", "yandex-captcha">>],
      [captchaType |-> "funcaptcha",
       patterns |-> <<"funcaptcha-container">>],
      [captchaType |-> "mcaptcha",
       patterns |-> <<"mcaptcha", "mcaptcha-container">>],
      [captchaType |-> "kasada",
       patterns |-> <<"kas", "kasada">>],
      [captchaType |-> "imperva",
       patterns |-> <<"_inc", "incapsula", "imperva">>],
      [captchaType |-> "awswaf",
       patterns |-> <<"aws-waf", "awswaf">>]>>

\* scriptPatterns (detectByScriptDomain), a Go map given in the order of its literal
classifierScriptPatterns ==
    <<[captchaType |-> "recaptcha",
       patterns |-> <<"google\\.com/recaptcha", "recaptcha.*\\.js", "gstatic\\.com/.*recaptcha">>],
      [captchaType |-> "recaptchav2",
       patterns |-> <<"recaptcha.*v2", "recaptcha/api\\.js">>],
      [captchaType |-> "recaptcha-invisible",
       patterns |-> <<"recaptcha.*invisible", "grecaptcha\\.render.*invisible">>],
      [captchaType |-> "hcaptcha",
       patterns |-> <<"js\\.hcaptcha\\.com", "hcaptcha">>],
      [captchaType |-> "turnstile",
       patterns |-> <<"challenges\\.cloudflare\\.com", "js\\.cloudflare\\.com.*turnstile">>],
      [captchaType |-> "geetest",
       patterns |-> <<"geetest", "api\\.geetest\\.com">>],
      [captchaType |-> "friendlycaptcha",
       patterns |-> <<"friendlycaptcha", "cdn\\.friendlycaptcha\\.com">>],
      [captchaType |-> "rotatecaptcha",
       patterns |-> <<"api\\.rotatecaptcha\\.com">>],
      [captchaType |-> "clickcaptcha",
       patterns |-> <<"assets\\.clickcaptcha\\.com">>],
      [captchaType |-> "imagecaptcha",
       patterns |-> <<"api\\.imagecaptcha\\.com">>],
      [captchaType |-> "puzzlecaptcha",
       patterns |-> <<"puzzle.*captcha">>],
      [captchaType |-> "slidercaptcha",
       patterns |-> <<"slider.*captcha", "api\\.slidercaptcha\\.com", "slidercaptcha\\.com">>],
      [captchaType |-> "datadome",
       patterns |-> <<"datadome\\.co", "cdn\\.mxpnl\\.com">>],
      [captchaType |-> "perimeterx",
       patterns |-> <<"perimeterx\\.net">>],
      [captchaType |-> "argon",
       patterns |-> <<"argon.*captcha", "captcha\\.argon">>],
      [captchaType |-> "behaviotech",
       patterns |-> <<"behaviotech\\.com">>],
      [captchaType |-> "smartcaptcha",
       patterns |-> <<"captcha\\.yandex\\.com", "smartcaptcha\\.yandex">>],
      [captchaType |-> "yandex",
       patterns |-> <<"yandex\\.com/.*captcha", "captcha\\.yandex", "smartcaptcha\\.yandex">>],
      [captchaType |-> "funcaptcha",
       patterns |-> <<"funcaptcha\\.com", "api\\.funcaptcha\\.com">>],
      [captchaType |-> "wsiz",
       patterns |-> <<"wsiz\\.com">>],
      [captchaType |-> "novascape",
       patterns |-> <<"novascape\\.com">>],
      [captchaType |-> "mcaptcha",
       patterns |-> <<"mcaptcha", "app\\.mcaptcha\\.io">>],
      [captchaType |-> "kasada",
       patterns |-> <<"kasada", "kas\\.kasadaproducts\\.com">>],
      [captchaType |-> "imperva",
       patterns |-> <<"/_Incapsula_Resource", "incapsula", "imperva">>],
      [captchaType |-> "awswaf",
       patterns |-> <<"/aws-waf-captcha/", "awswaf\\.com", "captcha\\.aws\\.amazon\\.com">>]>>

\* dataAttrPatterns (detectByDataAttributes), a Go map given in the order of its literal
classifierDataAttrPatterns ==
    <<[captchaType |-> "geetest",
       patterns |-> <<"id_geetest", "geetest_id">>],
      [captchaType |-> "friendlycaptcha",
       patterns |-> <<"frc-captcha", "data-public-key">>],
      [captchaType |-> "slidercaptcha",
       patterns |-> <<"data-slideshow", "slide-verify-container">>],
      [captchaType |-> "datadome",
       patterns |-> <<"dd-challenge", "dd-action">>],
      [captchaType |-> "yandex",
       patterns |-> <<"data-smartcaptcha", "captcha-container-yandex">>],
      [captchaType |-> "perimeterx",
       patterns |-> <<"_pxappid", "_px3">>],
      [captchaType |-> "argon",
       patterns |-> <<"argon-captcha">>],
      [captchaType |-> "smartcaptcha",
       patterns |-> <<"smart-captcha">>]>>

\* simpleCaptchaPatterns (detectByFieldNames)
classifierSimpleCaptchaPatterns ==
    <<"simplecaptcha", "captcha_code", "captcha_input", "verify_code",
      "verification_code", "security_code", "text_captcha", "captcha_result">>

\* iframePatterns (detectByIframe), a Go map given in the order of its literal
classifierIframePatterns ==
    <<[captchaType |-> "recaptcha",
       patterns |-> <<"recaptcha">>],
      [captchaType |-> "hcaptcha",
       patterns |-> <<"hcaptcha">>],
      [captchaType |-> "turnstile",
       patterns |-> <<"challenges.cloudflare.com">>],
      [captchaType |-> "geetest",
       patterns |-> <<"geetest">>],
      [captchaType |-> "slidercaptcha",
       patterns |-> <<"slidercaptcha", "slide-verify">>],
      [captchaType |-> "mcaptcha",
       patterns |-> <<"mcaptcha", "app.mcaptcha.io">>],
      [captchaType |-> "yandex",
       patterns |-> <<"yandex", "smartcaptcha">>],
      [captchaType |-> "kasada",
       patterns |-> <<"kasada", "kas">>],
      [captchaType |-> "imperva",
       patterns |-> <<"incapsula", "imperva">>],
      [captchaType |-> "datadome",
       patterns |-> <<"datadome">>]>>

\* domainPatterns (DetectCaptchaInHTML), a Go map given in the order of its literal
classifierDomainPatterns ==
    <<[captchaType |-> "recaptcha",
       patterns |-> <<"google.com/recaptcha", "gstatic.com", "recaptcha">>],
      [captchaType |-> "recaptchav2",
       patterns |-> <<"recaptcha/api.js", "recaptcha.*v2">>],
      [captchaType |-> "recaptcha-invisible",
       patterns |-> <<"recaptcha.*invisible">>],
      [captchaType |-> "hcaptcha",
       patterns |-> <<"hcaptcha", "js.hcaptcha.com">>],
      [captchaType |-> "turnstile",
       patterns |-> <<"challenges.cloudflare.com", "js.cloudflare.com">>],
      [captchaType |-> "geetest",
       patterns |-> <<"geetest", "api.geetest.com">>],
      [captchaType |-> "friendlycaptcha",
       patterns |-> <<"friendlycaptcha", "cdn.friendlycaptcha.com">>],
      [captchaType |-> "rotatecaptcha",
       patterns |-> <<"rotatecaptcha", "api.rotatecaptcha.com">>],
      [captchaType |-> "clickcaptcha",
       patterns |-> <<"clickcaptcha", "assets.clickcaptcha.com">>],
      [captchaType |-> "imagecaptcha",
       patterns |-> <<"imagecaptcha", "api.imagecaptcha.com">>],
      [captchaType |-> "puzzlecaptcha",
       patterns |-> <<"puzzle-captcha", "__puzzle_captcha">>],
      [captchaType |-> "slidercaptcha",
       patterns |-> <<"slider-captcha", "slidercaptcha">>],
      [captchaType |-> "mcaptcha",
       patterns |-> <<"mcaptcha", "app.mcaptcha.io">>],
      [captchaType |-> "kasada",
       patterns |-> <<"kasada", "kas.kasadaproducts.com">>],
      [captchaType |-> "imperva",
       patterns |-> <<"incapsula", "imperva">>],
      [captchaType |-> "awswaf",
       patterns |-> <<"awswaf", "captcha.aws.amazon.com">>],
      [captchaType |-> "datadome",
       patterns |-> <<"datadome", "dd-challenge">>],
      [captchaType |-> "perimeterx",
       patterns |-> <<"perimeterx", "_pxappid">>],
      [captchaType |-> "argon",
       patterns |-> <<"argon-captcha">>],
      [captchaType |-> "behaviotech",
       patterns |-> <<"behaviotech">>],
      [captchaType |-> "smartcaptcha",
       patterns |-> <<"captcha.yandex.com", "smartcaptcha">>],
      [captchaType |-> "yandex",
       patterns |-> <<"yandex.com/.*captcha", "yandex.ru/.*captcha", "smartcaptcha.yandex">>],
      [captchaType |-> "funcaptcha",
       patterns |-> <<"funcaptcha", "arkose">>],
      [captchaType |-> "wsiz",
       patterns |-> <<"wsiz.com">>],
      [captchaType |-> "novascape",
       patterns |-> <<"novascape">>]>>

\* classPatterns (DetectCaptchaInHTML), a Go map given in the order of its literal
classifierPageClassPatterns ==
    <<[captchaType |-> "recaptcha",
       patterns |-> <<"g-recaptcha", "grecaptcha">>],
      [captchaType |-> "recaptchav2",
       patterns |-> <<"g-recaptcha-v2", "grecaptcha-v2">>],
      [captchaType |-> "recaptcha-invisible",
       patterns |-> <<"g-recaptcha-invisible", "grecaptcha-invisible">>],
      [captchaType |-> "hcaptcha",
       patterns |-> <<"h-captcha", "hcaptcha">>],
      [captchaType |-> "turnstile",
       patterns |-> <<"cf-turnstile", "cloudflare-turnstile-challenge", "turnstile">>],
      [captchaType |-> "geetest",
       patterns |-> <<"geetest_", "geetest-box">>],
      [captchaType |-> "friendlycaptcha",
       patterns |-> <<"frc-captcha", "friendlycaptcha">>],
      [captchaType |-> "rotatecaptcha",
       patterns |-> <<"rotate-captcha", "rotatecaptcha">>],
      [captchaType |-> "clickcaptcha",
       patterns |-> <<"click-captcha", "clickcaptcha">>],
      [captchaType |-> "imagecaptcha",
       patterns |-> <<"image-captcha", "imagecaptcha">>],
      [captchaType |-> "puzzlecaptcha",
       patterns |-> <<"puzzle-captcha", "__puzzle_captcha">>],
      [captchaType |-> "slidercaptcha",
       patterns |-> <<"slider-captcha", "slidercaptcha">>],
      [captchaType |-> "mcaptcha",
       patterns |-> <<"mcaptcha", "mcaptcha-container">>],
      [captchaType |-> "kasada",
       patterns |-> <<"kas", "kasada">>],
      [captchaType |-> "imperva",
       patterns |-> <<"_inc", "incapsula", "imperva">>],
      [captchaType |-> "awswaf",
       patterns |-> <<"aws-waf", "awswaf">>],
      [captchaType |-> "datadome",
       patterns |-> <<"dd-challenge", "dd-top">>],
      [captchaType |-> "perimeterx",
       patterns |-> <<"_px3", "px-container">>],
      [captchaType |-> "argon",
       patterns |-> <<"argon-captcha">>],
      [captchaType |-> "smartcaptcha",
       patterns |-> <<"smart-captcha">>],
      [captchaType |-> "yandex",
       patterns |-> <<"smartcaptcha", "yandex-captcha">>],
      [captchaType |-> "funcaptcha",
       patterns |-> <<"funcaptcha-container">>]>>

\* simpleCaptchaPatterns (DetectCaptchaInHTML)
classifierPageSimplePatterns ==
    <<"simplecaptcha", "captcha_code", "captcha_input", "verify_code",
      "verification_code", "security_code", "text_captcha", "captcha_result">>

\* The elements, and the markups of a form of the inputs: a sequence of
\* elements in document order.
NoMarkup == <<>>

\* The literals of the rule tables that occur in htmlLower, the lower-cased
\* form.Html(): strings.Contains(htmlLower, p) is p \in HtmlLower(markup).
HtmlLower(markup) == UNION {markup[k].html : k \in DOMAIN markup}

\* The elements of a tag, in document order (Find(tag).Each).
RECURSIVE Find(_, _)
Find(markup, tag) ==
    IF markup = <<>> THEN <<>>
    ELSE (IF Head(markup).tag = tag THEN <<Head(markup)>> ELSE <<>>)
           \o Find(Tail(markup), tag)

\* The entries of a table one of whose patterns is among those found.
Hits(tbl, found) ==
    {e \in DOMAIN tbl : \E k \in DOMAIN tbl[e].patterns : tbl[e].patterns[k] \in found}

\* A loop over a map that returns at its first hit: the map's iteration
\* order is unspecified, so the entry returned is any entry with a hit.
AnyEntry(tbl, found) ==
    LET hits == Hits(tbl, found)
    IN  IF hits = {} THEN {CaptchaTypeNone} ELSE {tbl[e].captchaType : e \in hits}

\* A loop over a slice of entries that returns at its first hit.
FirstEntry(tbl, found) ==
    LET hits == Hits(tbl, found)
    IN  IF hits = {} THEN CaptchaTypeNone
        ELSE tbl[CHOOSE e \in hits : \A x \in hits : e <= x].captchaType

\* The scripts detectByScriptDomain looks at: those of the form, then those
\* of form.Parents().First(), the element the form is a child of.
scriptSrcs(form) == Find(form.markup, "script") \o Find(form.parent, "script")

\* ---- package captcha ----

\* Layer 1
detectByClasses(form) == FirstEntry(classPatterns, HtmlLower(form.markup))

\* Layer 2
detectByScriptDomain(form) ==
    LET srcs == scriptSrcs(form)
    IN  FirstEntry(scriptPatterns, UNION {srcs[k].srcRe : k \in DOMAIN srcs})

\* Layer 3
detectByDataAttributes(form) == FirstEntry(dataAttrPatterns, HtmlLower(form.markup))

\* The patterns of entry i of idPatterns once the entries of marked were
\* overwritten by the loop.
idPatternsOf(i, marked) ==
    IF i \in marked THEN <<"__matched__">> ELSE idPatterns[i].patterns

\* form.Find("[id]").Each: every element marks the first entry one of whose
\* patterns occurs in its id.
RECURSIVE MarkIDs(_, _)
MarkIDs(markup, marked) ==
    IF markup = <<>> THEN marked
    ELSE LET hit == {i \in DOMAIN idPatterns :
                       \E k \in DOMAIN idPatternsOf(i, marked) :
                          idPatternsOf(i, marked)[k] \in Head(markup).id}
         IN  MarkIDs(Tail(markup),
                     IF hit = {} THEN marked
                     ELSE marked \cup {CHOOSE i \in hit : \A x \in hit : i <= x})

\* form.Find("img[alt]").Each: the first image whose alt holds a pattern
\* decides, by the first such pattern.
RECURSIVE AltResult(_)
AltResult(imgs) ==
    IF imgs = <<>> THEN CaptchaTypeNone
    ELSE LET r == FirstEntry(altPatterns, Head(imgs).alt)
         IN  IF r # CaptchaTypeNone THEN r ELSE AltResult(Tail(imgs))

\* Layer 4 deciding by the first element in document order, an id or an alt,
\* that names a provider.
RECURSIVE detectByIDsAndAltDocumentOrder(_)
detectByIDsAndAltDocumentOrder(form) ==
    IF form.markup = <<>> THEN CaptchaTypeNone
    ELSE LET e == Head(form.markup)
             byId  == FirstEntry(idPatterns, e.id)
             byAlt == IF e.tag = "img" THEN FirstEntry(altPatterns, e.alt)
                      ELSE CaptchaTypeNone
         IN  IF byId # CaptchaTypeNone THEN byId
             ELSE IF byAlt # CaptchaTypeNone THEN byAlt
             ELSE detectByIDsAndAltDocumentOrder([form EXCEPT !.markup = Tail(@)])

\* Layer 4
detectByIDsAndAlt(form) ==
    LET marked == MarkIDs(form.markup, {})
    IN  IF marked # {}
        THEN idPatterns[CHOOSE i \in marked : \A x \in marked : i <= x].captchaType
        ELSE AltResult(Find(form.markup, "img"))

\* Layer 5
detectByFieldNames(form) ==
    LET htmlLower == HtmlLower(form.markup)
    IN  IF "__puzzle_captcha" \in htmlLower \/ "puzzle-captcha" \in htmlLower
        THEN CaptchaTypePuzzleCaptcha
        ELSE IF \E k \in DOMAIN simpleCaptchaPatterns : simpleCaptchaPatterns[k] \in htmlLower
        THEN CaptchaTypeSimple
        ELSE CaptchaTypeNone

\* Layer 6
detectByIframe(form) ==
    LET iframeSrcs == Find(form.markup, "iframe")
    IN  FirstEntry(iframePatterns, UNION {iframeSrcs[k].srcLit : k \in DOMAIN iframeSrcs})

\* Layer 7
hasGenericCaptchaMarkers(form) ==
    \E k \in DOMAIN genericMarkers : genericMarkers[k] \in HtmlLower(form.markup)

\* DetectInForm with the field-name layer asked before the id and alt layer.
DetectInFormFieldNamesFirst(form) ==
    LET c1 == detectByClasses(form)        IN IF c1 # CaptchaTypeNone THEN c1 ELSE
    LET c2 == detectByScriptDomain(form)   IN IF c2 # CaptchaTypeNone THEN c2 ELSE
    LET c3 == detectByDataAttributes(form) IN IF c3 # CaptchaTypeNone THEN c3 ELSE
    LET c5 == detectByFieldNames(form)     IN IF c5 # CaptchaTypeNone THEN c5 ELSE
    LET c4 == detectByIDsAndAlt(form)      IN IF c4 # CaptchaTypeNone THEN c4 ELSE
    LET c6 == detectByIframe(form)         IN IF c6 # CaptchaTypeNone THEN c6 ELSE
    IF hasGenericCaptchaMarkers(form) THEN CaptchaTypeOther ELSE CaptchaTypeNone

\* detector.DetectInForm(form) of package captcha
DetectInForm(form) ==
    LET c1 == detectByClasses(form)        IN IF c1 # CaptchaTypeNone THEN c1 ELSE
    LET c2 == detectByScriptDomain(form)   IN IF c2 # CaptchaTypeNone THEN c2 ELSE
    LET c3 == detectByDataAttributes(form) IN IF c3 # CaptchaTypeNone THEN c3 ELSE
    LET c4 == detectByIDsAndAlt(form)      IN IF c4 # CaptchaTypeNone THEN c4 ELSE
    LET c5 == detectByFieldNames(form)     IN IF c5 # CaptchaTypeNone THEN c5 ELSE
    LET c6 == detectByIframe(form)         IN IF c6 # CaptchaTypeNone THEN c6 ELSE
    IF hasGenericCaptchaMarkers(form) THEN CaptchaTypeOther ELSE CaptchaTypeNone

\* The markup of the whole HTML string: what lies outside the forms, and
\* the forms.
RECURSIVE FormsMarkup(_)
FormsMarkup(forms) ==
    IF forms = <<>> THEN <<>> ELSE Head(forms).markup \o FormsMarkup(Tail(forms))

WholeMarkup(html) == html.outside \o FormsMarkup(html.forms)

\* captcha.DetectCaptchaInHTML(html): the first entry of integrationPatterns
\* with an expression that matches the lower-cased HTML.
DetectCaptchaInHTML(html) ==
    LET whole == WholeMarkup(html)
    IN  FirstEntry(integrationPatterns, UNION {whole[k].re : k \in DOMAIN whole})

\* The tables are read on the whole lower-cased document.
DocumentLower(html) == HtmlLower(WholeMarkup(html))

\* ---- package classifier: every function gives the set of the values a
\* call can return ----

classifierDetectByClasses(form) ==
    AnyEntry(classifierClassPatterns, HtmlLower(form.markup))

classifierDetectByScriptDomain(form) ==
    LET srcs == scriptSrcs(form)
    IN  AnyEntry(classifierScriptPatterns, UNION {srcs[k].srcRe : k \in DOMAIN srcs})

classifierDetectByDataAttributes(form) ==
    AnyEntry(classifierDataAttrPatterns, HtmlLower(form.markup))

classifierDetectByFieldNames(form) ==
    IF \E k \in DOMAIN classifierSimpleCaptchaPatterns :
          classifierSimpleCaptchaPatterns[k] \in HtmlLower(form.markup)
    THEN {CaptchaTypeSimple}
    ELSE {CaptchaTypeNone}

classifierDetectByIframe(form) ==
    IF "iframe" \in HtmlLower(form.markup)
    THEN AnyEntry(classifierIframePatterns, HtmlLower(form.markup))
    ELSE {CaptchaTypeNone}

classifierHasGenericCaptchaMarkers(form) ==
    LET htmlLower == HtmlLower(form.markup)
        scripts   == Find(form.markup, "script")
    IN  \/ /\ "iframe" \in htmlLower
           /\ {"captcha", "challenge", "security"} \cap htmlLower # {}
        \/ \E k \in DOMAIN scripts :
              scripts[k].text \cap {"captcha", "antibot", "challenge"} # {}

\* detector.DetectInForm(form) of package classifier
classifierDetectInForm(form) ==
    LET none == {CaptchaTypeNone} IN
    LET c1 == classifierDetectByClasses(form)        IN IF c1 # none THEN c1 ELSE
    LET c2 == classifierDetectByScriptDomain(form)   IN IF c2 # none THEN c2 ELSE
    LET c3 == classifierDetectByDataAttributes(form) IN IF c3 # none THEN c3 ELSE
    LET c4 == classifierDetectByFieldNames(form)     IN IF c4 # none THEN c4 ELSE
    LET c5 == classifierDetectByIframe(form)         IN IF c5 # none THEN c5 ELSE
    IF classifierHasGenericCaptchaMarkers(form) THEN {CaptchaTypeOther} ELSE none

\* ---- the inputs ----

\* The forms of the facade's inputs: the type the form model gives the
\* form, and its markup.
FormSet ==
    {[type |-> "login",  markup |-> <<EmailInput>>],
     [type |-> "login",  markup |-> <<EmailInput, GRecaptchaDiv>>],
     [type |-> "search", markup |-> <<HCaptchaScript>>]}

\* An HTML input: its forms in document order, all children of one element,
\* and the markup of that element outside every form.
HTMLs ==
    {[forms |-> f, outside |-> o] :
        f \in SeqsUpTo(FormSet, MaxForms), o \in {NoMarkup, <<GRecaptchaDiv>>}}

\* classifier.DetectCaptchaInHTML: domainPatterns, then classPatterns (both
\* Go maps), then the field names of a simple CAPTCHA.
classifierDetectCaptchaInHTML(html) ==
    LET htmlLower == DocumentLower(html)
        d == AnyEntry(classifierDomainPatterns, htmlLower)
        c == AnyEntry(classifierPageClassPatterns, htmlLower)
    IN  IF d # {CaptchaTypeNone} THEN d
        ELSE IF c # {CaptchaTypeNone} THEN c
        ELSE IF Range(classifierPageSimplePatterns) \cap htmlLower # {}
             THEN {CaptchaTypeSimple}
             ELSE {CaptchaTypeNone}

\* The forms the detector is called on directly.
DetectorForms ==
    {[type |-> "login", markup |-> m] :
        m \in {<<EmailInput>>, <<GRecaptchaDiv, HCaptchaDiv>>, <<RecaptchaScript>>,
               <<HCaptchaDiv, RecaptchaScript>>, <<RecaptchaScript, PxDiv>>,
               <<PxDiv, EmbedCaptchaDiv>>, <<EmbedCaptchaDiv, CaptchaCodeInput>>,
               <<RotateImg>>, <<CaptchaCodeInput, FuncaptchaIframe>>,
               <<FuncaptchaIframe, CaptchaLabel>>, <<CaptchaLabel>>,
               <<AntibotScript>>, <<MentionLink>>, <<DataPxText>>,
               <<ArkoseDiv, EmbedCaptchaDiv>>, <<ClickImg, RotateImg>>,
               <<RotateImg, ArkoseDiv>>, <<GRecaptchaV2Div>>,
               <<GRecaptchaInvisibleDiv>>}}

\* The documents the detector is called on.
DetectorPages ==
    {[forms |-> f, outside |-> o] :
        f \in SeqsUpTo(DetectorForms, MaxForms), o \in {NoMarkup, <<HCaptchaScript>>}}

\* The strings IsValidCaptchaType is asked about.
ValidityInputs ==
    Range(CaptchaTypeConstants) \cup {"", "RECAPTCHA", "Other", "invalid", "coingecko"}

\* The two packages with a CaptchaDetector.
Packages == {"captcha", "classifier"}

\* htmlutil.GetForms(doc): the forms of the document, in document order,
\* each a selection that knows the element it is a child of.
GetForms(html) ==
    [i \in DOMAIN html.forms |->
        [type |-> html.forms[i].type, markup |-> html.forms[i].markup,
         parent |-> WholeMarkup(html)]]

\* c.fc.ExtractForms(html, proba, threshold, fields): one result per form.
fcExtractForms(html) == [i \in DOMAIN html.forms |-> [Form |-> html.forms[i].type]]

\* string(capType) without the test for CaptchaTypeNone.
CapStrRaw(capType) == capType

\* string(capType), "" for CaptchaTypeNone
CapStr(capType) == IF capType # CaptchaTypeNone THEN capType ELSE ""

\* The guard that checks fc alone.
FormModelMissingFcOnly(c) == ~c.fc

\* c.fc == nil || c.fc.FormModel == nil
FormModelMissing(c) == ~c.fc \/ ~c.FormModel

\* c.fc.PageModel == nil
PageModelMissing(c) == ~c.PageModel

\* The result slice built by appending to a nil slice: nil when nothing is appended.
OutSliceAppend(results) == [isNil |-> results = <<>>, len |-> Len(results)]

\* out := make([]FormResult, len(results)): never nil.
OutSlice(results) == [isNil |-> FALSE, len |-> Len(results)]

\* The per-form loop of ExtractForms and ExtractFormsProba.
FormResults(results, forms) ==
    [i \in DOMAIN results |->
        [Type    |-> results[i].Form,
         Captcha |-> CapStr(IF i <= Len(forms) THEN DetectInForm(forms[i])
                            ELSE CaptchaTypeNone)]]

\* The steps of that loop: one DetectInForm per result that has a form.
DetectSteps(results, forms) ==
    [i \in 1..(IF Len(results) < Len(forms) THEN Len(results) ELSE Len(forms)) |->
        "DetectInForm"]

\* The page-level CAPTCHA taken from the last form with a detection.
PageCaptchaLastForm(html) ==
    LET htmlForms == GetForms(html)
        hits == {i \in DOMAIN htmlForms : DetectInForm(htmlForms[i]) # CaptchaTypeNone}
        capStr == IF hits = {} THEN ""
                  ELSE CapStr(DetectInForm(htmlForms[CHOOSE i \in hits : \A k \in hits : k <= i]))
    IN  IF capStr = "" THEN CapStr(DetectCaptchaInHTML(html)) ELSE capStr

\* The page-level CAPTCHA: the first form with a detection, else the scan
\* of the whole HTML, else "".
PageCaptcha(html) ==
    LET htmlForms == GetForms(html)
        hits == {i \in DOMAIN htmlForms : DetectInForm(htmlForms[i]) # CaptchaTypeNone}
        capStr == IF hits = {} THEN ""
                  ELSE CapStr(DetectInForm(htmlForms[CHOOSE i \in hits : \A k \in hits : i <= k]))
    IN  IF capStr = "" THEN CapStr(DetectCaptchaInHTML(html)) ELSE capStr

\* The steps of the page-level detection.
PageCaptchaSteps(html) ==
    LET htmlForms == GetForms(html)
        hits == {i \in DOMAIN htmlForms : DetectInForm(htmlForms[i]) # CaptchaTypeNone}
        tried == IF hits = {} THEN Len(htmlForms)
                 ELSE CHOOSE i \in hits : \A k \in hits : i <= k
    IN  <<"LoadHTMLString", "GetForms">> \o [i \in 1..tried |-> "DetectInForm"]
          \o (IF hits = {} THEN <<"DetectCaptchaInHTML">> ELSE <<>>)

\* dit.Load / a Classifier literal: the process gets a Classifier.
NewClassifier(c) ==
    /\ ~model.exists
    /\ clf' = c
    /\ call' = [NoCall EXCEPT !.op = "NewClassifier"]
    /\ ret' = [NoRet EXCEPT !.outcome = "ok"]
    /\ locals' = NoLocals
    /\ UNCHANGED model

\* The body shared by ExtractForms and ExtractFormsProba.
ExtractFormsBody(op, html) ==
    /\ ~model.exists
    /\ call' = [NoCall EXCEPT !.op = op, !.html = html]
    /\ IF FormModelMissing(clf)
       THEN /\ ret' = [NoRet EXCEPT !.outcome = "ok", !.isNil = TRUE,
                                    !.err = "dit: classifier not initialized"]
            /\ locals' = NoLocals
       ELSE LET results == fcExtractForms(html)
                forms   == GetForms(html)
                out     == OutSlice(results)
            IN  /\ ret' = [NoRet EXCEPT !.outcome = "ok", !.isNil = out.isNil,
                                        !.forms = FormResults(results, forms)]
                /\ locals' = [NoLocals EXCEPT !.steps =
                                <<"fc.ExtractForms", "LoadHTMLString", "GetForms">>
                                  \o DetectSteps(results, forms)]
    /\ UNCHANGED <<model, clf>>

\* c.ExtractForms(html)
ExtractForms(html) == ExtractFormsBody("ExtractForms", html)

\* c.ExtractFormsProba(html, threshold)
ExtractFormsProba(html) == ExtractFormsBody("ExtractFormsProba", html)

\* The body shared by ExtractPageType and ExtractPageTypeProba; pageType is
\* the page type fc.ExtractPage returns.
ExtractPageBody(op, html, pageType) ==
    /\ ~model.exists
    /\ call' = [NoCall EXCEPT !.op = op, !.html = html]
    /\ IF FormModelMissing(clf)
       THEN /\ ret' = [NoRet EXCEPT !.outcome = "ok", !.isNil = TRUE,
                                    !.err = "dit: classifier not initialized"]
            /\ locals' = NoLocals
       ELSE IF PageModelMissing(clf)
       THEN /\ ret' = [NoRet EXCEPT !.outcome = "ok", !.isNil = TRUE,
                                    !.err = "dit: page model not available"]
            /\ locals' = NoLocals
       ELSE LET formResults == fcExtractForms(html) IN
            /\ ret' = [NoRet EXCEPT !.outcome = "ok", !.isNil = FALSE,
                          !.class = pageType,
                          !.captcha = PageCaptcha(html),
                          !.forms = [i \in DOMAIN formResults |->
                                       [Type |-> formResults[i].Form, Captcha |-> ""]]]
            /\ locals' = [NoLocals EXCEPT !.steps =
                            <<"fc.ExtractPage">> \o PageCaptchaSteps(html)]
    /\ UNCHANGED <<model, clf>>

\* c.ExtractPageType(html)
ExtractPageType(html, pageType) == ExtractPageBody("ExtractPageType", html, pageType)

\* c.ExtractPageTypeProba(html, threshold)
ExtractPageTypeProba(html, pageType) ==
    ExtractPageBody("ExtractPageTypeProba", html, pageType)

\* detector.DetectInForm(forms[i]) called directly on the forms of a
\* document, with the detector of either package.
CallDetectInForm(pkg, i) ==
    /\ i \in DOMAIN GetForms(call.html)
    /\ call' = [NoCall EXCEPT !.op = "DetectInForm", !.html = call.html,
                              !.pkg = pkg, !.index = i]
    /\ \E t \in (IF pkg = "captcha" THEN {DetectInForm(GetForms(call.html)[i])}
                 ELSE classifierDetectInForm(GetForms(call.html)[i])) :
          ret' = [NoRet EXCEPT !.outcome = "ok", !.captchaType = t]
    /\ locals' = NoLocals
    /\ UNCHANGED <<model, clf>>

\* DetectCaptchaInHTML(html) of either package called directly.
CallDetectCaptchaInHTML(pkg) ==
    /\ call' = [NoCall EXCEPT !.op = "DetectCaptchaInHTML", !.html = call.html,
                              !.pkg = pkg]
    /\ \E t \in (IF pkg = "captcha" THEN {DetectCaptchaInHTML(call.html)}
                 ELSE classifierDetectCaptchaInHTML(call.html)) :
          ret' = [NoRet EXCEPT !.outcome = "ok", !.captchaType = t]
    /\ locals' = NoLocals
    /\ UNCHANGED <<model, clf>>

\* IsValidCaptchaType(s) of either package, called where no document was
\* parsed (TestIsValidCaptchaType).
CallIsValidCaptchaType(pkg, s) ==
    /\ call.html = NoCall.html
    /\ call' = [NoCall EXCEPT !.op = "IsValidCaptchaType", !.pkg = pkg, !.s = s]
    /\ ret' = [NoRet EXCEPT !.outcome = "ok",
                            !.valid = IF pkg = "captcha" THEN IsValidCaptchaType(s)
                                      ELSE classifierIsValidCaptchaType(s)]
    /\ locals' = NoLocals
    /\ UNCHANGED <<model, clf>>

----------------------------------------------------------------------------
(* Form feature extractors and DefaultFeaturePipelines.  A Go string is    *)
(* the sequence of its tokens, "" the empty sequence; a map is nil or has  *)
(* a set of keys.                                                          *)

\* The implementations of FormFeatureExtractor, in source order.
FormFeatureExtractors ==
    <<"FormElements", "SubmitText", "FormLinksText", "FormLabelText", "FormUrl",
      "FormCss", "FormInputCss", "FormInputNames", "FormInputTitle">>

\* f.IsDict() with SubmitText declared a mapping too.
IsDictSubmitToo(extractor) == extractor \in {"FormElements", "SubmitText"}

\* f.IsDict()
IsDict(extractor) == extractor = "FormElements"

\* f.ExtractDict(form): the 14 keys of FormElements, nil for the others.
FormExtractDict(extractor, form) ==
    IF extractor = "FormElements"
    THEN [nil  |-> FALSE,
          keys |-> {"has <textarea>", "has <input type=radio>", "has <select>",
                    "has <input type=checkbox>", "has <input type=email>",
                    "2 or 3 inputs", "no <input type=password>",
                    "exactly one <input type=password>",
                    "exactly two <input type=password>", "no <input type=text>",
                    "exactly one <input type=text>", "exactly two <input type=text>",
                    "3 or more <input type=text>", "<form method"}]
    ELSE [nil |-> TRUE, keys |-> {}]

\* normalizeURLPart: "/", "_" and "-" are removed.
normalizeURLPart(part) == SelectSeq(part, LAMBDA t : t \notin {"/", "_", "-"})

\* f.ExtractString(form): "" for FormElements; FormUrl puts the normalized
\* path, the query twice and the fragment together; the others return the
\* text htmlutil reads off the form.  A login form has the action
\* /user_login?next#top, a submit button and an input named after its type;
\* other forms have none of them.  The action is one url.Parse accepts.
FormExtractString(extractor, form) ==
    LET login == form.type = "login"
        u == [Path     |-> IF login THEN <<"/", "user", "_", "login">> ELSE <<>>,
              RawQuery |-> IF login THEN <<"next">> ELSE <<>>,
              Fragment |-> IF login THEN <<"top">> ELSE <<>>]
    IN  CASE extractor = "FormElements" -> <<>>
          [] extractor = "FormUrl" ->
                IF ~login THEN <<>>
                ELSE normalizeURLPart(u.Path) \o normalizeURLPart(u.RawQuery)
                     \o normalizeURLPart(u.RawQuery) \o <<"#">>
                     \o normalizeURLPart(u.Fragment)
          [] extractor \in {"SubmitText", "FormInputNames"} ->
                IF login THEN <<form.type>> ELSE <<>>
          [] OTHER -> <<>>

\* DefaultFeaturePipelines(): name, extractor and vectorizer kind.
DefaultFeaturePipelines ==
    << [Name |-> "form elements", Extractor |-> "FormElements",   VecType |-> "dict"],
       [Name |-> "submit text",   Extractor |-> "SubmitText",     VecType |-> "count"],
       [Name |-> "links text",    Extractor |-> "FormLinksText",  VecType |-> "tfidf"],
       [Name |-> "label text",    Extractor |-> "FormLabelText",  VecType |-> "tfidf"],
       [Name |-> "form url",      Extractor |-> "FormUrl",        VecType |-> "tfidf"],
       [Name |-> "form css",      Extractor |-> "FormCss",        VecType |-> "tfidf"],
       [Name |-> "input css",     Extractor |-> "FormInputCss",   VecType |-> "tfidf"],
       [Name |-> "input names",   Extractor |-> "FormInputNames", VecType |-> "tfidf"],
       [Name |-> "input title",   Extractor |-> "FormInputTitle", VecType |-> "tfidf"] >>

\* The three methods of an extractor called on form i of the document.
CallFormFeatureExtractor(extractor, i) ==
    /\ i \in DOMAIN GetForms(call.html)
    /\ call' = [NoCall EXCEPT !.op = "FormFeatureExtractor", !.html = call.html,
                              !.s = extractor, !.index = i]
    /\ ret' = [NoRet EXCEPT !.outcome = "ok",
                            !.valid = IsDict(extractor),
                            !.str = FormExtractString(extractor, GetForms(call.html)[i]),
                            !.dict = FormExtractDict(extractor, GetForms(call.html)[i])]
    /\ locals' = NoLocals
    /\ UNCHANGED <<model, clf>>

\* DefaultFeaturePipelines() called.
CallDefaultFeaturePipelines ==
    /\ call' = [NoCall EXCEPT !.op = "DefaultFeaturePipelines", !.html = call.html]
    /\ ret' = [NoRet EXCEPT !.outcome = "ok", !.pipelines = DefaultFeaturePipelines]
    /\ locals' = NoLocals
    /\ UNCHANGED <<model, clf>>

----------------------------------------------------------------------------
(* FindModel.  A directory on the way from the working directory to the    *)
(* filesystem root is its depth, the root being 0, so filepath.Dir(dir) is *)
(* dir - 1 and filepath.Dir of the root is the root.  call.fs says what    *)
(* os.Getwd, os.Stat and os.UserHomeDir answer: the working directory (or  *)
(* that there is none), the directories that hold the named file, those    *)
(* that hold go.mod, and whether there is a home directory and ~/.dit      *)
(* holds the file.  locals.pc is the position in the function.             *)

FileSystems ==
    [cwd : 0..MaxDepth, getwd : BOOLEAN, file : SUBSET (0..MaxDepth),
     gomod : SUBSET (0..MaxDepth), home : {"none", "empty", "file"}]

\* dir, err := os.Getwd(): the error is returned, else the loop starts at
\* the working directory.
FindModelGetwd ==
    /\ locals.pc = "getwd"
    /\ IF call.fs.getwd
       THEN /\ locals' = [locals EXCEPT !.pc = "loop", !.dir = call.fs.cwd]
            /\ UNCHANGED ret
       ELSE /\ locals' = [locals EXCEPT !.pc = "done"]
            /\ ret' = [NoRet EXCEPT !.outcome = "error", !.err = "getwd"]
    /\ UNCHANGED <<model, clf, call>>

\* One turn of the loop with the test for go.mod first.
FindModelLoopGoModFirst ==
    /\ locals.pc = "loop"
    /\ IF locals.dir \in call.fs.gomod
       THEN /\ locals' = [locals EXCEPT !.pc = "home"]
            /\ UNCHANGED ret
       ELSE IF locals.dir \in call.fs.file
       THEN /\ locals' = [locals EXCEPT !.pc = "done"]
            /\ ret' = [NoRet EXCEPT !.outcome = "ok",
                                    !.path = [at |-> "dir", dir |-> locals.dir]]
       ELSE IF locals.dir = 0
       THEN /\ locals' = [locals EXCEPT !.pc = "home"]
            /\ UNCHANGED ret
       ELSE /\ locals' = [locals EXCEPT !.dir = locals.dir - 1]
            /\ UNCHANGED ret
    /\ UNCHANGED <<model, clf, call>>

\* One turn of the loop: the file in dir is returned; else the loop ends
\* when dir holds go.mod or is its own parent; else dir becomes its parent.
FindModelLoop ==
    /\ locals.pc = "loop"
    /\ IF locals.dir \in call.fs.file
       THEN /\ locals' = [locals EXCEPT !.pc = "done"]
            /\ ret' = [NoRet EXCEPT !.outcome = "ok",
                                    !.path = [at |-> "dir", dir |-> locals.dir]]
       ELSE IF locals.dir \in call.fs.gomod
       THEN /\ locals' = [locals EXCEPT !.pc = "home"]
            /\ UNCHANGED ret
       ELSE IF (IF locals.dir = 0 THEN 0 ELSE locals.dir - 1) = locals.dir
       THEN /\ locals' = [locals EXCEPT !.pc = "home"]
            /\ UNCHANGED ret
       ELSE /\ locals' = [locals EXCEPT !.dir = locals.dir - 1]
            /\ UNCHANGED ret
    /\ UNCHANGED <<model, clf, call>>

\* After the loop: ModelDir() is "" without a home directory; the file in
\* ~/.dit is returned, else the error.
FindModelHome ==
    /\ locals.pc = "home"
    /\ locals' = [locals EXCEPT !.pc = "done"]
    /\ IF call.fs.home = "file"
       THEN ret' = [NoRet EXCEPT !.outcome = "ok", !.path = [at |-> "home", dir |-> 0]]
       ELSE ret' = [NoRet EXCEPT !.outcome = "error", !.err = "model.json not found"]
    /\ UNCHANGED <<model, clf, call>>

----------------------------------------------------------------------------
(* The specification                                                       *)

Init ==
    /\ model = NoModel
    /\ clf = ZeroClassifier
    /\ call = NoCall
    /\ ret = NoRet
    /\ locals = NoLocals

\* What Dot does with a column beyond the coefficient row.
OobModes == {"panic", "skip"}

\* A panic ends the process: nothing runs after it.
Alive == ret.outcome # "panic"

\* Training and loading a model file are the first thing their process
\* does (a one-shot batch, or the load at start-up).
Fresh == call.op = "none"

Next ==
    \/ \E docs \in SeqsUpTo(Docs, MaxDocs), labels \in SeqsUpTo(LabelSet, MaxDocs),
          BalanceClass \in BOOLEAN :
         Fresh /\ TrainPageType(docs, labels, BalanceClass)
    \/ \E damage \in Damages : Fresh /\ LoadFile(damage)
    \/ Alive /\ Reload
    \/ Alive /\ InitRuntime
    \/ \E doc \in Docs, oob \in OobModes : Alive /\ ClassifyProba(doc, oob)
    \/ \E doc \in Docs, oob \in OobModes : Alive /\ Classify(doc, oob)
    \/ \E c \in Classifiers : NewClassifier(c)
    \/ \E html \in HTMLs : ExtractForms(html)
    \/ \E html \in HTMLs : ExtractFormsProba(html)
    \/ \E html \in HTMLs, pageType \in LabelSet : ExtractPageType(html, pageType)
    \/ \E html \in HTMLs, pageType \in LabelSet : ExtractPageTypeProba(html, pageType)

Spec == Init /\ [][Next]_vars

\* The detector used on its own: a document is parsed, then the functions
\* of the captcha and classifier packages are called on it.
CaptchaInit ==
    /\ model = NoModel
    /\ clf = ZeroClassifier
    /\ call \in {[NoCall EXCEPT !.html = page] : page \in DetectorPages}
    /\ ret = NoRet
    /\ locals = NoLocals

CaptchaNext ==
    \/ \E pkg \in Packages, i \in 1..MaxForms : CallDetectInForm(pkg, i)
    \/ \E pkg \in Packages : CallDetectCaptchaInHTML(pkg)
    \/ \E pkg \in Packages, s \in ValidityInputs : CallIsValidCaptchaType(pkg, s)

CaptchaSpec == CaptchaInit /\ [][CaptchaNext]_vars

\* The form feature extractors used on their own: a document is parsed,
\* then the extractors are called on its forms.
FeatureInit ==
    /\ model = NoModel
    /\ clf = ZeroClassifier
    /\ call \in {[NoCall EXCEPT !.html = page] : page \in HTMLs}
    /\ ret = NoRet
    /\ locals = NoLocals

FeatureNext ==
    \/ \E k \in DOMAIN FormFeatureExtractors, i \in 1..MaxForms :
          CallFormFeatureExtractor(FormFeatureExtractors[k], i)
    \/ CallDefaultFeaturePipelines

FeatureSpec == FeatureInit /\ [][FeatureNext]_vars

\* One call of FindModel on a filesystem.  The function is sequential code
\* that is never suspended for good, so a step that can be taken is taken.
FindModelInit ==
    /\ model = NoModel
    /\ clf = ZeroClassifier
    /\ call \in {[NoCall EXCEPT !.op = "FindModel", !.fs = fs] : fs \in FileSystems}
    /\ ret = NoRet
    /\ locals = [NoLocals EXCEPT !.pc = "getwd"]

FindModelNext ==
    \/ FindModelGetwd
    \/ FindModelLoop
    \/ FindModelHome

FindModelSpec == FindModelInit /\ [][FindModelNext]_vars /\ WF_vars(FindModelNext)

----------------------------------------------------------------------------
(* Properties                                                              *)

\* The class earliest in classes among those of the greatest probability.
EarliestMax(classes, proba) ==
    LET top == {c \in DOMAIN classes :
                  \A k \in DOMAIN classes : RatLE(proba[classes[k]], proba[classes[c]])}
    IN  classes[CHOOSE c \in top : \A k \in top : c <= k]

ClassifyReturned == call.op = "Classify" /\ ret.outcome = "ok"

TrainReturned == call.op = "TrainPageType" /\ ret.outcome = "ok"

\* C1: when two or more classes share the maximum probability, Classify
\* returns the one earliest in Classes order (and so the same class on
\* every call with the same input).
C1_StableTieBreak ==
    ClassifyReturned => ret.class = EarliestMax(model.Classes, locals.proba)

\* C2: Classify returns a member of Classes whose probability in the
\* distribution of ClassifyProba is the greatest, and that distribution has
\* exactly one entry per class of Classes.
C2_ArgmaxOfDistribution ==
    /\ ClassifyReturned =>
         /\ ret.class \in Range(model.Classes)
         /\ \A cls \in DOMAIN locals.proba :
              RatLE(locals.proba[cls], locals.proba[ret.class])
    /\ (call.op \in {"Classify", "ClassifyProba"} /\ ret.outcome = "ok") =>
         /\ DOMAIN locals.proba = Range(model.Classes)
         /\ Cardinality(DOMAIN locals.proba) = Len(model.Classes)

\* C2 witness: Classify returned on a model with two classes of different
\* probability.
C2_Witness ==
    /\ ClassifyReturned
    /\ \E cls \in DOMAIN locals.proba : RatGT(locals.proba[ret.class], locals.proba[cls])

\* C3: after TrainPageType, Classes is the list of distinct labels in order
\* of first occurrence (no duplicate, no label missing), and every example's
\* integer label is the index of its label in Classes.
C3_ClassesFirstOccurrence ==
    TrainReturned =>
        /\ Range(model.Classes) = Range(call.labels)
        /\ \A i, k \in DOMAIN model.Classes :
             i < k => FirstPos(call.labels, model.Classes[i])
                        < FirstPos(call.labels, model.Classes[k])
        /\ Len(locals.y) = Len(call.docs)
        /\ \A j \in DOMAIN locals.y :
             /\ locals.y[j] + 1 \in DOMAIN model.Classes
             /\ model.Classes[locals.y[j] + 1] = call.labels[j]

\* C3 witness: training returned on labels in which a label repeats.
C3_Witness ==
    /\ TrainReturned
    /\ Len(model.Classes) < Len(call.labels)

\* C4: with BalanceClass every sample of class c weighs
\* N / (numClasses * count(c)); without it every sample weighs 1.0; the
\* weights are one per example, so no class without an example has one.
C4_BalancedWeights ==
    TrainReturned =>
        LET N == Len(call.docs)
            numClasses == Cardinality(Range(call.labels))
            count(l) == Cardinality({k \in 1..N : call.labels[k] = l})
        IN  /\ Len(locals.sampleWeights) = IF call.BalanceClass THEN N ELSE 0
            /\ \A j \in 1..N :
                 EffectiveWeight(locals.sampleWeights, j) =
                     IF call.BalanceClass
                     THEN Rat(N, numClasses * count(call.labels[j]))
                     ELSE <<1, 1>>

\* C4 witness: a balanced fit in which some sample's weight is not 1.0.
C4_Witness ==
    /\ TrainReturned
    /\ call.BalanceClass
    /\ \E j \in DOMAIN locals.sampleWeights : locals.sampleWeights[j] # <<1, 1>>

\* C5: TrainPageType with zero examples, or with an empty label set,
\* reports a configuration error (it neither returns a model nor panics).
C5_ZeroExamplesConfigError ==
    (call.op = "TrainPageType" /\ (call.docs = <<>> \/ call.labels = <<>>))
        => ret.outcome = "error"

\* C6: training on a non-empty corpus whose labels are all one class
\* returns a model of exactly that one class, every balanced sample weight
\* is 1.0, and Classify on such a model returns that class for every input.
C6_SingleClass ==
    /\ (/\ call.op = "TrainPageType"
        /\ call.docs # <<>>
        /\ Len(call.labels) >= Len(call.docs)
        /\ Cardinality(Range(call.labels)) = 1) =>
           /\ ret.outcome = "ok"
           /\ model.Classes = <<call.labels[1]>>
           /\ call.BalanceClass =>
                /\ Len(locals.sampleWeights) = Len(call.docs)
                /\ \A j \in DOMAIN locals.sampleWeights :
                     locals.sampleWeights[j] = <<1, 1>>
    /\ (/\ call.op = "Classify"
        /\ Len(model.Classes) = 1
        /\ model.vecTypes # <<>>) =>
           /\ ret.outcome = "ok"
           /\ ret.class = model.Classes[1]

\* C6 witness: Classify returned on a model of one class.
C6_Witness ==
    /\ ClassifyReturned
    /\ Len(model.Classes) = 1
    /\ call.doc # DocBlank

FormOps == {"ExtractForms", "ExtractFormsProba"}
PageOps == {"ExtractPageType", "ExtractPageTypeProba"}

\* C7: the four Extract operations on a Classifier whose form model is not
\* initialized return an error and a nil result before any parsing,
\* classification or detection; the two page operations do so as well when
\* only the page model is missing.
C7_UninitializedFacade ==
    /\ (call.op \in FormOps \cup PageOps /\ (~clf.fc \/ ~clf.FormModel)) =>
          /\ ret.err = "dit: classifier not initialized"
          /\ ret.isNil
          /\ ret.forms = <<>>
          /\ locals.steps = <<>>
    /\ (call.op \in PageOps /\ clf.fc /\ clf.FormModel /\ ~clf.PageModel) =>
          /\ ret.err = "dit: page model not available"
          /\ ret.isNil
          /\ ret.forms = <<>>
          /\ locals.steps = <<>>

\* C7 witness: a page operation called on a Classifier that has fc but no
\* form model, with forms in the HTML.
C7_Witness ==
    /\ call.op \in PageOps
    /\ clf.fc /\ ~clf.FormModel
    /\ call.html.forms # <<>>

\* C8: Classify and ClassifyProba on a deserialized model not yet warmed by
\* InitRuntime fail before any logit is computed, and return no label and
\* no distribution.
C8_NotWarmedFails ==
    (call.op \in {"Classify", "ClassifyProba"} /\ call.before.vecTypes = <<>>) =>
        /\ ret.outcome = "panic"
        /\ locals.logits = <<>>
        /\ ret.class = ""
        /\ ret.proba = <<>>

\* C8 witness: inference called on a model as JSON left it.
C8_Witness ==
    /\ call.op \in {"Classify", "ClassifyProba"}
    /\ call.before.vecTypes = <<>>
    /\ call.before.Classes # <<>>
    /\ ret.outcome = "panic"

\* C9: InitRuntime on a persisted model whose coefficient width differs
\* from the sum of its pipelines' vocabulary sizes, or whose coefficient or
\* intercept row count differs from the number of classes, fails.
C9_LoadTimeDimensionCheck ==
    (call.op = "InitRuntime" /\ ~Consistent(call.before)) => ret.outcome # "ok"

CalledForm == GetForms(call.html)[call.index]

DetectInFormCalled == call.op = "DetectInForm" /\ ret.outcome = "ok"

\* What each layer of package captcha finds in a form, in the order of the
\* seven layers (the generic layer finds CaptchaTypeOther); each a set of
\* one value.
LayerResults(form) ==
    <<{detectByClasses(form)}, {detectByScriptDomain(form)},
      {detectByDataAttributes(form)}, {detectByIDsAndAlt(form)},
      {detectByFieldNames(form)}, {detectByIframe(form)},
      {IF hasGenericCaptchaMarkers(form) THEN CaptchaTypeOther ELSE CaptchaTypeNone}>>

\* What each layer of package classifier can find in a form, in the order
\* of its six layers.
classifierLayerResults(form) ==
    <<classifierDetectByClasses(form), classifierDetectByScriptDomain(form),
      classifierDetectByDataAttributes(form), classifierDetectByFieldNames(form),
      classifierDetectByIframe(form),
      {IF classifierHasGenericCaptchaMarkers(form) THEN CaptchaTypeOther
       ELSE CaptchaTypeNone}>>

\* The six layers classes, script domains, data attributes, field names,
\* iframes, generic markers of a package.
SixLayerResults(pkg, form) ==
    IF pkg = "captcha"
    THEN <<LayerResults(form)[1], LayerResults(form)[2], LayerResults(form)[3],
           LayerResults(form)[5], LayerResults(form)[6], LayerResults(form)[7]>>
    ELSE classifierLayerResults(form)

\* A result obeys a layer order: it is a finding of the first layer that
\* finds something, it is CaptchaTypeOther only when only the last (generic)
\* layer finds something, and CaptchaTypeNone only when no layer does.
ObeysLayers(result, layers) ==
    LET found == {k \in DOMAIN layers : layers[k] # {CaptchaTypeNone}}
    IN  /\ found = {} => result = CaptchaTypeNone
        /\ found # {} => result \in layers[CHOOSE k \in found : \A x \in found : k <= x]
        /\ result = CaptchaTypeOther => found = {Len(layers)}
        /\ result = CaptchaTypeNone => found = {}

\* C11 (as stated): DetectInForm applies the six layers classes, script
\* domains, data attributes, field names, iframes, generic markers in that
\* order and returns the finding of the first layer that finds something;
\* other only when only the generic layer matches, none only when no layer
\* matches.
C11_SixLayerOrder ==
    DetectInFormCalled =>
        ObeysLayers(ret.captchaType, SixLayerResults(call.pkg, CalledForm))

\* C11 (amended): DetectInForm of package captcha applies seven layers, the
\* element ids and image alt texts being asked after the data attributes
\* and before the field names; DetectInForm of package classifier applies
\* the six layers.  Each returns the finding of the first layer that finds
\* something, other only when only the generic layer matches, and none only
\* when no layer matches.
C11_LayerOrder ==
    DetectInFormCalled =>
        ObeysLayers(ret.captchaType,
                    IF call.pkg = "captcha" THEN LayerResults(CalledForm)
                    ELSE classifierLayerResults(CalledForm))

\* C11 witness: package captcha decided by the id and alt layer on a form
\* in which the field-name layer finds another type.
C11_Witness ==
    /\ DetectInFormCalled
    /\ call.pkg = "captcha"
    /\ detectByIDsAndAlt(CalledForm) # CaptchaTypeNone
    /\ detectByFieldNames(CalledForm) \notin {CaptchaTypeNone, detectByIDsAndAlt(CalledForm)}
    /\ ret.captchaType = detectByIDsAndAlt(CalledForm)

\* The document of the last call with every form but the called one removed.
FormAlone == [forms |-> <<call.html.forms[call.index]>>, outside |-> call.html.outside]

\* The values DetectInForm of a package can return for a form.
DetectInFormResults(pkg, form) ==
    IF pkg = "captcha" THEN {DetectInForm(form)} ELSE classifierDetectInForm(form)

\* C12: the result of DetectInForm for a form is determined by that form's
\* own markup: it is a result the form gets in the same document without
\* its sibling forms.
C12_OwnMarkupOnly ==
    DetectInFormCalled =>
        ret.captchaType \in DetectInFormResults(call.pkg, GetForms(FormAlone)[1])

\* The finding of the six layers of package classifier when every table is
\* read in the order it is listed.
classifierFirstListed(form) ==
    LET htmlLower == HtmlLower(form.markup)
        srcs      == scriptSrcs(form)
        listed    == <<FirstEntry(classifierClassPatterns, htmlLower),
                       FirstEntry(classifierScriptPatterns,
                                  UNION {srcs[k].srcRe : k \in DOMAIN srcs}),
                       FirstEntry(classifierDataAttrPatterns, htmlLower),
                       IF \E k \in DOMAIN classifierSimpleCaptchaPatterns :
                             classifierSimpleCaptchaPatterns[k] \in htmlLower
                       THEN CaptchaTypeSimple ELSE CaptchaTypeNone,
                       IF "iframe" \in htmlLower
                       THEN FirstEntry(classifierIframePatterns, htmlLower)
                       ELSE CaptchaTypeNone,
                       IF classifierHasGenericCaptchaMarkers(form)
                       THEN CaptchaTypeOther ELSE CaptchaTypeNone>>
        found     == {k \in DOMAIN listed : listed[k] # CaptchaTypeNone}
    IN  IF found = {} THEN CaptchaTypeNone
        ELSE listed[CHOOSE k \in found : \A x \in found : k <= x]

\* C13: DetectInForm is deterministic and first-entry-wins within a layer:
\* every call on a form returns the provider listed first in the table of
\* the deciding layer.
C13_FirstEntryWins ==
    DetectInFormCalled =>
        ret.captchaType = IF call.pkg = "captcha" THEN DetectInForm(CalledForm)
                          ELSE classifierFirstListed(CalledForm)

\* C14: IsValidCaptchaType of either package is true exactly for the string
\* values of the 28 CaptchaType constants, compared case-sensitively.
C14_ValidExactlyConstants ==
    /\ Cardinality(Range(CaptchaTypeConstants)) = 28
    /\ call.op = "IsValidCaptchaType" =>
          ret.valid = (call.s \in Range(CaptchaTypeConstants))

\* C14 witness: the classifier package rejected an upper-case spelling of a
\* constant.
C14_Witness ==
    /\ call.op = "IsValidCaptchaType"
    /\ call.pkg = "classifier"
    /\ call.s = "RECAPTCHA"
    /\ ~ret.valid

\* C14 witness of acceptance: the captcha package accepted "wsiz".
C14_Accepts ==
    /\ call.op = "IsValidCaptchaType"
    /\ call.pkg = "captcha"
    /\ call.s = "wsiz"
    /\ ret.valid

PageReturned == call.op \in PageOps /\ ret.outcome = "ok" /\ ret.err = ""

FormsReturned == call.op \in FormOps /\ ret.outcome = "ok" /\ ret.err = ""

\* The forms of the last call's HTML on which DetectInForm finds a CAPTCHA.
FormsWithCaptcha ==
    {i \in DOMAIN GetForms(call.html) :
        DetectInForm(GetForms(call.html)[i]) # CaptchaTypeNone}

\* C15: the page-level Captcha of ExtractPageType and ExtractPageTypeProba
\* is the detection of the first form, in document order, for which
\* DetectInForm returns a type other than none; only when there is no such
\* form is DetectCaptchaInHTML called, and the field is empty when that
\* scan returns none as well.
C15_PageCaptchaFirstForm ==
    PageReturned =>
        IF FormsWithCaptcha # {}
        THEN /\ ret.captcha =
                  DetectInForm(GetForms(call.html)[
                      CHOOSE i \in FormsWithCaptcha : \A k \in FormsWithCaptcha : i <= k])
             /\ "DetectCaptchaInHTML" \notin Range(locals.steps)
        ELSE /\ "DetectCaptchaInHTML" \in Range(locals.steps)
             /\ ret.captcha = IF DetectCaptchaInHTML(call.html) = CaptchaTypeNone THEN ""
                              ELSE DetectCaptchaInHTML(call.html)

\* C15 witness: a page operation returned for an HTML two of whose forms
\* have different CAPTCHAs, and reported the earlier one.
C15_Witness ==
    /\ PageReturned
    /\ Len(call.html.forms) >= 2
    /\ \E i, k \in FormsWithCaptcha :
          /\ i < k
          /\ DetectInForm(GetForms(call.html)[i]) # DetectInForm(GetForms(call.html)[k])
          /\ ret.captcha = DetectInForm(GetForms(call.html)[i])

\* C15 witness of the fallback: no form has a CAPTCHA and the scan of the
\* whole HTML finds one.
C15_Fallback ==
    /\ PageReturned
    /\ call.html.forms # <<>>
    /\ FormsWithCaptcha = {}
    /\ ret.captcha # ""

\* C16: every form entry of the result of ExtractPageType and
\* ExtractPageTypeProba carries the CAPTCHA string ExtractForms reports for
\* that form on the same HTML.
C16_PageFormsCarryCaptcha ==
    PageReturned =>
        /\ Len(ret.forms) = Len(call.html.forms)
        /\ \A i \in DOMAIN ret.forms :
              ret.forms[i].Captcha =
                 IF DetectInForm(GetForms(call.html)[i]) = CaptchaTypeNone THEN ""
                 ELSE DetectInForm(GetForms(call.html)[i])

VocabOf(m, i) ==
    IF m.vecTypes[i] = "dict" THEN m.dictVecs[i].vocab ELSE m.tfidfVecs[i].vocab

\* The first column of the block of pipeline i: the sum of the vocabulary
\* sizes of the pipelines before it.
BlockStart(m, i) == SumSeq(SubSeq(m.vecDims, 1, i - 1))

\* The columns a document sets in the block of pipeline i, given the tokens
\* the pipeline extracts from it: the columns of its tokens in the
\* vocabulary, moved to the block.
BlockCols(m, i, tokens) ==
    {BlockStart(m, i) + FirstPos(VocabOf(m, i), t) - 1 :
        t \in Range(tokens) \cap Range(VocabOf(m, i))}

\* A feature vector has the dimension of the model, and its columns are the
\* union over the pipelines of the columns of the pipeline's own block.
InOwnBlocks(x, m, tokens) ==
    /\ x.Dim = SumSeq(m.vecDims)
    /\ Len(m.vecDims) = Len(DefaultPageFeaturePipelines)
    /\ \A i \in DOMAIN m.vecDims : m.vecDims[i] = Len(VocabOf(m, i))
    /\ x.cols = UNION {BlockCols(m, i, tokens[i]) : i \in DOMAIN m.vecDims}
    /\ \A i \in DOMAIN m.vecDims :
          \A k \in BlockCols(m, i, tokens[i]) :
             BlockStart(m, i) <= k /\ k < BlockStart(m, i) + m.vecDims[i]

\* The tokens the pipelines extract from a document at inference.
InferenceTokens(doc) ==
    [i \in DOMAIN DefaultPageFeaturePipelines |->
        IF DefaultPageFeaturePipelines[i].VecType = "dict"
        THEN ExtractDict(DefaultPageFeaturePipelines[i].Extractor, doc)
        ELSE ExtractString(DefaultPageFeaturePipelines[i].Extractor, doc, <<>>)]

\* The tokens the pipelines extract from document j of a training corpus.
TrainingTokens(docs, j) ==
    [i \in DOMAIN DefaultPageFeaturePipelines |-> Corpus(DefaultPageFeaturePipelines[i], docs)[j]]

InferenceReturned == call.op \in {"Classify", "ClassifyProba"} /\ ret.outcome = "ok"

\* C18: the concatenated feature vector built at training and at inference
\* has the dimension SumSeq(vecDims), the sum of the pipelines' vocabulary
\* sizes, which is the width of every coefficient row TrainPageType
\* returns, and every pipeline's entries lie in the pipeline's own column
\* block.
C18_ConcatDimension ==
    /\ TrainReturned =>
          /\ Len(locals.xData) = Len(call.docs)
          /\ \A j \in DOMAIN locals.xData :
                InOwnBlocks(locals.xData[j], model, TrainingTokens(call.docs, j))
          /\ locals.totalDim = SumSeq(model.vecDims)
          /\ \A c \in DOMAIN model.Coef : Len(model.Coef[c]) = SumSeq(model.vecDims)
    /\ InferenceReturned =>
          InOwnBlocks(locals.features, model, InferenceTokens(call.doc))

\* C18 witness: inference returned a vector with an entry in a block other
\* than the first, the first block being non-empty.
C18_Witness ==
    /\ InferenceReturned
    /\ model.vecDims[1] > 0
    /\ \E k \in locals.features.cols : k >= model.vecDims[1]

\* C18 witness at training: a training vector with entries in two blocks.
C18_TrainingWitness ==
    /\ TrainReturned
    /\ \E j \in DOMAIN locals.xData :
          \E k, l \in locals.xData[j].cols : k < model.vecDims[1] /\ l >= model.vecDims[1]

\* C19: for every document of the training corpus the feature vector
\* extractFeatures builds with the trained model equals the vector
\* TrainPageType built for it.
C19_InferenceEqualsTraining ==
    TrainReturned =>
        \A j \in DOMAIN call.docs :
           /\ ~extractFeatures(model, call.docs[j]).panic
           /\ extractFeatures(model, call.docs[j]).features = locals.xData[j]

\* The classes Classify can return for a distribution: the results of its
\* loop over the orders in which the map can be visited.
ClassifyResults(proba) ==
    {BestLoop(order, proba, [bestClass |-> "", bestProb |-> InitialBestProb]).bestClass :
        order \in MapRangeOrders(proba)}

InitRuntimeReturned == call.op = "InitRuntime" /\ ret.outcome = "ok"

\* The runtime fields of a model.
RuntimeFields(m) ==
    [dictVecs |-> m.dictVecs, tfidfVecs |-> m.tfidfVecs,
     vecTypes |-> m.vecTypes, vecDims |-> m.vecDims]

\* The runtime fields InitRuntime builds from the persisted fields alone.
Rebuilt(m) ==
    LET r == RuntimeOf(Deserialized(m)) IN
    [dictVecs |-> r.dictVecs, tfidfVecs |-> r.tfidfVecs,
     vecTypes |-> r.vecTypes, vecDims |-> r.vecDims]

\* C21: InitRuntime leaves the runtime fields that the persisted Pipelines
\* determine, with the vocabularies the pipelines hold (nothing is refitted)
\* and the persisted fields as they were; on a model that has its runtime
\* fields already, set by TrainPageType or by an earlier InitRuntime, it
\* changes nothing.
C21_InitRuntimeRebuilds ==
    InitRuntimeReturned =>
        /\ RuntimeFields(model) = Rebuilt(call.before)
        /\ Deserialized(model) = Deserialized(call.before)
        /\ call.before.vecTypes # <<>> => model = call.before

\* C21 witness: InitRuntime returned on a model that had runtime fields,
\* with a vocabulary that is not empty.
C21_Witness ==
    /\ InitRuntimeReturned
    /\ call.before.vecTypes # <<>>
    /\ \E i \in DOMAIN model.vecDims : model.vecDims[i] > 0

\* C21 witness after a load: InitRuntime returned on a model read from disk.
C21_LoadedWitness ==
    /\ InitRuntimeReturned
    /\ call.before.vecTypes = <<>>
    /\ \E i \in DOMAIN model.vecDims : model.vecDims[i] > 0

\* Whether pipeline i of a model has a vectorizer at run time.
HasRuntimeVectorizer(m, i) ==
    /\ i \in DOMAIN m.dictVecs
    /\ ~m.dictVecs[i].nil \/ ~m.tfidfVecs[i].nil

\* The kinds of vectorizer a pipeline can name.
VectorizerKinds == {"dict", "count", "tfidf"}

\* C24: every pipeline of kind dict, count or tfidf has a fitted
\* vectorizer after training and after InitRuntime, with the dimension of
\* its persisted vocabulary, and the vector of inference has a block of
\* that dimension for it.
C24_NoKindSkipped ==
    /\ (TrainReturned \/ InitRuntimeReturned) =>
          \A i \in DOMAIN model.Pipelines :
             model.Pipelines[i].VecType \in VectorizerKinds =>
                /\ HasRuntimeVectorizer(model, i)
                /\ model.vecDims[i] = VocabSize(model.Pipelines[i].DictVec)
                                        + VocabSize(model.Pipelines[i].TfidfVec)
    /\ InferenceReturned =>
          /\ \A i \in DOMAIN model.Pipelines :
                model.Pipelines[i].VecType \in VectorizerKinds =>
                   HasRuntimeVectorizer(model, i)
          /\ locals.features.Dim = PersistedDim(model)

DetectCaptchaInHTMLCalled == call.op = "DetectCaptchaInHTML" /\ ret.outcome = "ok"

\* What classifier.DetectCaptchaInHTML finds when its tables are read in
\* the order they are listed.
classifierPageFirstListed(html) ==
    LET htmlLower == DocumentLower(html)
        d == FirstEntry(classifierDomainPatterns, htmlLower)
        c == FirstEntry(classifierPageClassPatterns, htmlLower)
    IN  IF d # CaptchaTypeNone THEN d
        ELSE IF c # CaptchaTypeNone THEN c
        ELSE IF Range(classifierPageSimplePatterns) \cap htmlLower # {}
             THEN CaptchaTypeSimple
             ELSE CaptchaTypeNone

\* C22: DetectCaptchaInHTML returns the type of the first entry, in the
\* order of its table, with a pattern that matches the lower-cased HTML,
\* and none when no entry matches; so a call on a document always returns
\* the same type.
C22_FirstEntryInTableOrder ==
    DetectCaptchaInHTMLCalled =>
        ret.captchaType =
            IF call.pkg = "captcha"
            THEN FirstEntry(integrationPatterns,
                            UNION {WholeMarkup(call.html)[k].re :
                                     k \in DOMAIN WholeMarkup(call.html)})
            ELSE classifierPageFirstListed(call.html)

\* The expressions of DetectCaptchaInHTML that match inside a tag of the
\* document, that is, in an attribute.
AttributeMatches(html) ==
    UNION {WholeMarkup(html)[k].attr : k \in DOMAIN WholeMarkup(html)}

\* C23: captcha.DetectCaptchaInHTML reports a provider only when an
\* expression of that provider matches in an attribute of an element; text
\* content alone never gives a result other than none.
C23_IntegrationContextOnly ==
    (DetectCaptchaInHTMLCalled /\ call.pkg = "captcha"
        /\ ret.captchaType # CaptchaTypeNone) =>
        \E e \in DOMAIN integrationPatterns :
           /\ integrationPatterns[e].captchaType = ret.captchaType
           /\ Range(integrationPatterns[e].patterns) \cap AttributeMatches(call.html) # {}

\* The literals of idPatterns that occur in the id of an element of a form.
FormIds(form) == UNION {form.markup[k].id : k \in DOMAIN form.markup}

\* The images of a form whose alt text holds a literal of altPatterns.
AltImages(form) ==
    {k \in DOMAIN form.markup : form.markup[k].tag = "img" /\ form.markup[k].alt # {}}

\* The id and alt layer is reached: the three layers before it find nothing.
IdAltLayerReached(form) ==
    /\ detectByClasses(form) = CaptchaTypeNone
    /\ detectByScriptDomain(form) = CaptchaTypeNone
    /\ detectByDataAttributes(form) = CaptchaTypeNone

\* C27: when DetectInForm of package captcha reaches the id and alt layer,
\* an id that names a provider decides whatever the alt texts say, by the
\* entry earliest in idPatterns among those some id matches, whatever the
\* order of the elements; with no such id, the first image in document
\* order whose alt names a provider decides.
C27_IdBeforeAlt ==
    (DetectInFormCalled /\ call.pkg = "captcha" /\ IdAltLayerReached(CalledForm)) =>
        /\ FormIds(CalledForm) # {} =>
              ret.captchaType = FirstEntry(idPatterns, FormIds(CalledForm))
        /\ (FormIds(CalledForm) = {} /\ AltImages(CalledForm) # {}) =>
              ret.captchaType =
                 FirstEntry(altPatterns,
                            CalledForm.markup[CHOOSE k \in AltImages(CalledForm) :
                                \A x \in AltImages(CalledForm) : k <= x].alt)

\* C27 witness: an element with a funcaptcha id stands before an element
\* with a geetest id, and geetest, earlier in idPatterns, is returned.
C27_Witness ==
    /\ DetectInFormCalled
    /\ call.pkg = "captcha"
    /\ IdAltLayerReached(CalledForm)
    /\ \E j, k \in DOMAIN CalledForm.markup :
          /\ j < k
          /\ FirstEntry(idPatterns, CalledForm.markup[j].id) = "funcaptcha"
          /\ FirstEntry(idPatterns, CalledForm.markup[k].id) = "geetest"
    /\ ret.captchaType = "geetest"

\* C27 witness for the precedence: an image whose alt names a provider
\* stands before an element whose id names another, and the id decides.
C27_IdOverAltWitness ==
    /\ DetectInFormCalled
    /\ call.pkg = "captcha"
    /\ IdAltLayerReached(CalledForm)
    /\ \E j, k \in DOMAIN CalledForm.markup :
          j < k /\ j \in AltImages(CalledForm) /\ CalledForm.markup[k].id # {}
    /\ ret.captchaType = FirstEntry(idPatterns, FormIds(CalledForm))

\* C27 witness for the images: two images name different providers and the
\* first in the document decides against the order of altPatterns.
C27_AltWitness ==
    /\ DetectInFormCalled
    /\ call.pkg = "captcha"
    /\ IdAltLayerReached(CalledForm)
    /\ FormIds(CalledForm) = {}
    /\ Cardinality(AltImages(CalledForm)) = 2
    /\ ret.captchaType = "clickcaptcha"

\* C28: a form whose markup carries g-recaptcha-v2 is reported as
\* recaptchav2 and one that carries g-recaptcha-invisible as
\* recaptcha-invisible: the entries of classPatterns after the first can be
\* returned.
C28_NoShadowedEntry ==
    DetectInFormCalled =>
        /\ "g-recaptcha-v2" \in HtmlLower(CalledForm.markup) =>
              ret.captchaType = "recaptchav2"
        /\ "g-recaptcha-invisible" \in HtmlLower(CalledForm.markup) =>
              ret.captchaType = "recaptcha-invisible"

ExtractorCalled == call.op = "FormFeatureExtractor" /\ ret.outcome = "ok"

\* C25: an extractor whose IsDict is true returns a mapping from
\* ExtractDict and the empty string from ExtractString, one whose IsDict is
\* false returns nil from ExtractDict; DefaultFeaturePipelines returns the
\* same 9 pipelines in the same order, and a pipeline is of kind dict
\* exactly when the IsDict of its extractor is true.
C25_OutputFormAsDeclared ==
    /\ ExtractorCalled =>
          /\ ret.valid => ~ret.dict.nil /\ ret.dict.keys # {} /\ ret.str = <<>>
          /\ ~ret.valid => ret.dict.nil
    /\ call.op = "DefaultFeaturePipelines" =>
          /\ [i \in DOMAIN ret.pipelines |-> ret.pipelines[i].Name]
                = <<"form elements", "submit text", "links text", "label text",
                    "form url", "form css", "input css", "input names", "input title">>
          /\ [i \in DOMAIN ret.pipelines |-> ret.pipelines[i].Extractor]
                = FormFeatureExtractors
          /\ \A i \in DOMAIN ret.pipelines :
                ret.pipelines[i].VecType \in VectorizerKinds
                /\ (ret.pipelines[i].VecType = "dict" <=> IsDict(ret.pipelines[i].Extractor))

\* C25 witness: an extractor that is not a mapping extractor returned a
\* string that is not empty and a nil mapping.
C25_Witness ==
    /\ ExtractorCalled
    /\ ~ret.valid
    /\ ret.str # <<>>
    /\ ret.dict.nil

\* C25 witness for the mapping extractor and for the list.
C25_DictWitness == ExtractorCalled /\ ret.valid /\ ~ret.dict.nil

C25_PipelinesWitness == call.op = "DefaultFeaturePipelines" /\ Len(ret.pipelines) = 9

FindModelReturned == call.op = "FindModel" /\ locals.pc = "done"

\* The directories FindModel looks into: the working directory and its
\* ancestors up to the nearest one that holds go.mod, that one included.
Searched(fs) == {k \in 0..fs.cwd : \A j \in (k + 1)..fs.cwd : j \notin fs.gomod}

\* What the search order asks for: the file in the searched directory
\* nearest to the working directory, else the one in ~/.dit, else an error.
FirstExisting(fs) ==
    LET found == Searched(fs) \cap fs.file
    IN  IF found # {}
        THEN [outcome |-> "ok", err |-> "",
              path |-> [at |-> "dir", dir |-> CHOOSE k \in found : \A x \in found : x <= k]]
        ELSE IF fs.home = "file"
        THEN [outcome |-> "ok", err |-> "", path |-> [at |-> "home", dir |-> 0]]
        ELSE [outcome |-> "error", err |-> "model.json not found",
              path |-> [at |-> "", dir |-> 0]]

\* C26: FindModel returns for every filesystem, and when there is a working
\* directory it returns the first existing path in the order: each
\* directory from the working directory upward, through the first one that
\* holds go.mod or the filesystem root, then ~/.dit; an error when none
\* exists.
C26_FindModelTerminates ==
    /\ <>FindModelReturned
    /\ []((FindModelReturned /\ call.fs.getwd) =>
             /\ ret.outcome = FirstExisting(call.fs).outcome
             /\ ret.err = FirstExisting(call.fs).err
             /\ ret.path = FirstExisting(call.fs).path)

\* C26 witness: the search went up past the working directory, stopped at a
\* directory with go.mod that does not hold the file although a directory
\* above it does, and returned the file of ~/.dit.
C26_Witness ==
    /\ FindModelReturned
    /\ call.fs.getwd
    /\ ret.path.at = "home"
    /\ \E k \in call.fs.gomod : k < call.fs.cwd /\ \E j \in call.fs.file : j < k

\* C26 witnesses: a file found in an ancestor that holds go.mod too, the
\* root reached without a file, and no working directory.
C26_AncestorWitness ==
    /\ FindModelReturned
    /\ ret.path.at = "dir"
    /\ ret.path.dir < call.fs.cwd
    /\ ret.path.dir \in call.fs.gomod

C26_RootWitness ==
    /\ FindModelReturned
    /\ call.fs.getwd
    /\ call.fs.cwd = MaxDepth
    /\ call.fs.gomod = {}
    /\ ret.outcome = "error"

C26_GetwdWitness == FindModelReturned /\ ~call.fs.getwd /\ ret.err = "getwd"
====
